---------------------------- MODULE Spec2Model ----------------------------
(***************************************************************************)
(* A model of the newsfresh GKG parsing core: the line reader GkgReader,   *)
(* the record parser parse_record with its sub-grammar parsers, and the    *)
(* read loops of run_pipeline and cmd_analyze.                             *)
(*                                                                         *)
(* A text (Rust &str / String) is a sequence of bytes.  An ASCII byte is   *)
(* the one-character string of its character ("a", "\t", ";").  "C3" and   *)
(* "A9" are the lead byte and the continuation byte of the two-byte UTF-8  *)
(* character U+00E9, and "FF" is a byte that occurs in no UTF-8 text.      *)
(* Byte indices are 0-based as in Rust; sequence positions are 1-based.    *)
(***************************************************************************)
EXTENDS Integers, Sequences, FiniteSets, TLC

VARIABLES
    inner,        \* GkgReader.inner: the underlying stream (bytes, position, pending faults)
    line_number,  \* GkgReader.line_number
    ret,          \* what the last call of GkgReader::next returned
    yielded,      \* history: every value next() has returned, in call order
    line,         \* parse_record's argument `line`
    line_num,     \* parse_record's argument `line_number`
    result,       \* what parse_record returned
    loop,         \* the locals of the read loop of run_pipeline / cmd_analyze
    threads,      \* per thread: the locals of its parse_record call in progress
    calls,        \* history: every parse_record call that has returned
    call,         \* a call of a helper function: its name, arguments and return value
    composite,    \* a CompositeFilter (its `filters`) and the record it is asked about
    json          \* a JsonFormatter: its field `first` and the bytes written to its writer

vars == <<inner, line_number, ret, yielded, line, line_num, result, loop,
          threads, calls, call, composite, json>>

(***************************************************************************)
(* Bytes and characters                                                    *)
(***************************************************************************)
HT == "\t"
LF == "\n"
CR == "\r"

Digits == {"0", "1", "2", "3", "4", "5", "6", "7", "8", "9"}

DigitVal(c) ==
    CASE c = "0" -> 0 [] c = "1" -> 1 [] c = "2" -> 2 [] c = "3" -> 3
      [] c = "4" -> 4 [] c = "5" -> 5 [] c = "6" -> 6 [] c = "7" -> 7
      [] c = "8" -> 8 [] c = "9" -> 9

DigitChar(d) == <<"0", "1", "2", "3", "4", "5", "6", "7", "8", "9">>[d + 1]

IsLeadByte(b) == b = "C3"
IsContinuationByte(b) == b = "A9"
IsInvalidByte(b) == b = "FF"

\* str::from_utf8(bytes).is_ok()
RECURSIVE IsValidUtf8(_)
IsValidUtf8(bytes) ==
    IF bytes = <<>> THEN TRUE
    ELSE IF IsInvalidByte(bytes[1]) \/ IsContinuationByte(bytes[1]) THEN FALSE
    ELSE IF IsLeadByte(bytes[1])
         THEN /\ Len(bytes) >= 2
              /\ IsContinuationByte(bytes[2])
              /\ IsValidUtf8(SubSeq(bytes, 3, Len(bytes)))
    ELSE IsValidUtf8(Tail(bytes))

\* str::is_char_boundary(i), i a 0-based byte index
IsCharBoundary(s, i) ==
    \/ i = 0
    \/ i = Len(s)
    \/ /\ 0 < i
       /\ i < Len(s)
       /\ ~IsContinuationByte(s[i + 1])

\* &s[a..b]: panics unless a <= b <= len and both are char boundaries
SliceStr(s, a, b) ==
    IF a <= b /\ b <= Len(s) /\ IsCharBoundary(s, a) /\ IsCharBoundary(s, b)
    THEN [panic |-> FALSE, val |-> SubSeq(s, a + 1, b)]
    ELSE [panic |-> TRUE, val |-> <<>>]

\* str::split(d): the pieces between occurrences of d; never an empty list
RECURSIVE SplitFrom(_, _, _, _)
SplitFrom(s, d, start, i) ==
    IF i > Len(s) THEN <<SubSeq(s, start, Len(s))>>
    ELSE IF s[i] = d
         THEN <<SubSeq(s, start, i - 1)>> \o SplitFrom(s, d, i + 1, i + 1)
    ELSE SplitFrom(s, d, start, i + 1)

Split(s, d) == SplitFrom(s, d, 1, 1)

\* str::splitn(n, d): at most n pieces, the last one holding the rest
RECURSIVE SplitNFrom(_, _, _, _, _)
SplitNFrom(s, d, n, start, i) ==
    IF n = 0 THEN <<>>
    ELSE IF n = 1 \/ i > Len(s) THEN <<SubSeq(s, start, Len(s))>>
    ELSE IF s[i] = d
         THEN <<SubSeq(s, start, i - 1)>> \o SplitNFrom(s, d, n - 1, i + 1, i + 1)
    ELSE SplitNFrom(s, d, n, start, i + 1)

SplitN(s, n, d) == SplitNFrom(s, d, n, 1, 1)

\* (mutant) str::find(c): the 0-based byte index of the first c, or none
RFind_First(s, c) ==
    LET hits == {i \in 1..Len(s) : s[i] = c}
    IN  IF hits = {} THEN [some |-> FALSE, val |-> 0]
        ELSE [some |-> TRUE, val |-> (CHOOSE i \in hits : \A j \in hits : i <= j) - 1]

\* str::rfind(c): the 0-based byte index of the last c, or none
RFind(s, c) ==
    LET hits == {i \in 1..Len(s) : s[i] = c}
    IN  IF hits = {} THEN [some |-> FALSE, val |-> 0]
        ELSE [some |-> TRUE, val |-> (CHOOSE i \in hits : \A j \in hits : j <= i) - 1]

\* char::is_whitespace on the bytes of the model
IsWhitespace(c) == c \in {" ", HT, LF, CR}

RECURSIVE TrimStart(_)
TrimStart(s) ==
    IF s # <<>> /\ IsWhitespace(s[1]) THEN TrimStart(Tail(s)) ELSE s

RECURSIVE TrimEnd(_)
TrimEnd(s) ==
    IF s # <<>> /\ IsWhitespace(s[Len(s)]) THEN TrimEnd(SubSeq(s, 1, Len(s) - 1)) ELSE s

\* str::trim
Trim(s) == TrimEnd(TrimStart(s))

\* (mutant) str::trim_end(): trailing white space of any kind is removed
TrimEndMatches_AnyWhitespace(s, c) == TrimEnd(s)

\* str::trim_end_matches(c): every trailing c is removed
RECURSIVE TrimEndMatches(_, _)
TrimEndMatches(s, c) ==
    IF s # <<>> /\ s[Len(s)] = c
    THEN TrimEndMatches(SubSeq(s, 1, Len(s) - 1), c)
    ELSE s

\* str::strip_prefix(p)
StripPrefix(s, p) ==
    IF Len(s) >= Len(p) /\ SubSeq(s, 1, Len(p)) = p
    THEN [some |-> TRUE, val |-> SubSeq(s, Len(p) + 1, Len(s))]
    ELSE [some |-> FALSE, val |-> <<>>]

\* (mutant) the filter also drops a part equal to an earlier part
NonEmptyOnly_Dedup(parts) ==
    LET keep == {i \in 1..Len(parts) :
                    parts[i] # <<>> /\ \A k \in 1..(i - 1) : parts[k] # parts[i]}
    IN  [n \in 1..Cardinality(keep) |->
            parts[CHOOSE i \in keep : Cardinality({k \in keep : k < i}) = n - 1]]

\* Iterator::filter(|s| !s.is_empty())
NonEmptyOnly(parts) == SelectSeq(parts, LAMBDA p : p # <<>>)


(***************************************************************************)
(* Numbers.  An i64 is kept as a canonical decimal [neg, mag] (mag: the    *)
(* digits of its magnitude without leading zeros, <<>> for zero), since    *)
(* its range is wider than the integers of the checker; an i32 and a usize *)
(* are integers.  An f64 is kept as the canonical decimal it was read      *)
(* from.                                                                   *)
(***************************************************************************)
RECURSIVE StripLeadingZeros(_)
StripLeadingZeros(ds) ==
    IF ds # <<>> /\ ds[1] = "0" THEN StripLeadingZeros(Tail(ds)) ELSE ds

RECURSIVE StripTrailingZeros(_)
StripTrailingZeros(ds) ==
    IF ds # <<>> /\ ds[Len(ds)] = "0"
    THEN StripTrailingZeros(SubSeq(ds, 1, Len(ds) - 1))
    ELSE ds

AllDigits(ds) == \A i \in 1..Len(ds) : ds[i] \in Digits

\* a <= b for magnitudes without leading zeros
RECURSIVE MagLexLE(_, _)
MagLexLE(a, b) ==
    IF a = <<>> THEN TRUE
    ELSE IF DigitVal(a[1]) # DigitVal(b[1]) THEN DigitVal(a[1]) < DigitVal(b[1])
    ELSE MagLexLE(Tail(a), Tail(b))

MagLE(a, b) == Len(a) < Len(b) \/ (Len(a) = Len(b) /\ MagLexLE(a, b))

I64MaxMag == <<"9","2","2","3","3","7","2","0","3","6","8","5","4","7","7","5","8","0","7">>
I64MinMag == <<"9","2","2","3","3","7","2","0","3","6","8","5","4","7","7","5","8","0","8">>
I32MaxMag == <<"2","1","4","7","4","8","3","6","4","7">>
I32MinMag == <<"2","1","4","7","4","8","3","6","4","8">>

I64Zero == [neg |-> FALSE, mag |-> <<>>]
F64Zero == [kind |-> "num", neg |-> FALSE, int |-> <<>>, frac |-> <<>>, exp |-> I64Zero]

\* The sign and the digits of a numeral as <i64 as FromStr>/<i32 as FromStr>
\* read it: an optional leading '+' or '-', then at least one digit, all digits.
NumeralParts(s) ==
    LET signed == s # <<>> /\ s[1] \in {"+", "-"}
        ds == IF signed THEN Tail(s) ELSE s
    IN  [ok |-> ds # <<>> /\ AllDigits(ds),
         neg |-> signed /\ s[1] = "-",
         mag |-> IF AllDigits(ds) THEN StripLeadingZeros(ds) ELSE <<>>]

\* s.parse::<i64>(): Err on empty text, a non-digit, or a value out of range
FromStrI64(s) ==
    LET n == NumeralParts(s)
        fits == n.ok /\ MagLE(n.mag, IF n.neg THEN I64MinMag ELSE I64MaxMag)
    IN  [ok |-> fits,
         val |-> IF fits THEN [neg |-> n.neg /\ n.mag # <<>>, mag |-> n.mag] ELSE I64Zero]

\* the integer of a magnitude that fits 32 bits, accumulated on the side of its sign
RECURSIVE MagToInt(_, _, _)
MagToInt(mag, neg, acc) ==
    IF mag = <<>> THEN acc
    ELSE MagToInt(Tail(mag), neg,
                  IF neg THEN acc * 10 - DigitVal(mag[1]) ELSE acc * 10 + DigitVal(mag[1]))

\* (mutant) a value out of range is clamped to the nearest bound
FromStrI32_Saturating(s) ==
    LET n == NumeralParts(s)
        fits == n.ok /\ MagLE(n.mag, IF n.neg THEN I32MinMag ELSE I32MaxMag)
    IN  [ok |-> n.ok,
         val |-> IF fits THEN MagToInt(n.mag, n.neg, 0)
                 ELSE IF ~n.ok THEN 0
                 ELSE MagToInt(IF n.neg THEN I32MinMag ELSE I32MaxMag, n.neg, 0)]

\* s.parse::<i32>()
FromStrI32(s) ==
    LET n == NumeralParts(s)
        fits == n.ok /\ MagLE(n.mag, IF n.neg THEN I32MinMag ELSE I32MaxMag)
    IN  [ok |-> fits, val |-> IF fits THEN MagToInt(n.mag, n.neg, 0) ELSE 0]

ToAsciiLower(c) ==
    CASE c = "I" -> "i" [] c = "N" -> "n" [] c = "F" -> "f" [] c = "T" -> "t"
      [] c = "Y" -> "y" [] c = "A" -> "a" [] c = "E" -> "e" [] OTHER -> c

\* s.parse::<f64>(): [sign] (inf | infinity | nan | decimal [e [sign] digits]),
\* where a decimal is digits with an optional '.', holding at least one digit
FromStrF64(s) ==
    LET signed == s # <<>> /\ s[1] \in {"+", "-"}
        neg == signed /\ s[1] = "-"
        body == [i \in 1..(Len(s) - (IF signed THEN 1 ELSE 0)) |->
                    ToAsciiLower(s[i + (IF signed THEN 1 ELSE 0)])]
        me == SplitN(body, 2, "e")
        mant == me[1]
        ip == SplitN(mant, 2, ".")
        int == ip[1]
        frac == IF Len(ip) = 2 THEN ip[2] ELSE <<>>
        mantOk == AllDigits(int) /\ AllDigits(frac) /\ Len(int) + Len(frac) >= 1
        ex == IF Len(me) = 2 THEN NumeralParts(me[2])
              ELSE [ok |-> TRUE, neg |-> FALSE, mag |-> <<>>]
    IN  IF body = <<"i","n","f">> \/ body = <<"i","n","f","i","n","i","t","y">>
        THEN [ok |-> TRUE,
              val |-> [kind |-> "inf", neg |-> neg, int |-> <<>>, frac |-> <<>>, exp |-> I64Zero]]
        ELSE IF body = <<"n","a","n">>
        THEN [ok |-> TRUE,
              val |-> [kind |-> "nan", neg |-> neg, int |-> <<>>, frac |-> <<>>, exp |-> I64Zero]]
        ELSE IF mantOk /\ ex.ok
        THEN [ok |-> TRUE,
              val |-> [kind |-> "num", neg |-> neg,
                       int |-> StripLeadingZeros(int),
                       frac |-> StripTrailingZeros(frac),
                       exp |-> [neg |-> ex.neg /\ ex.mag # <<>>, mag |-> ex.mag]]]
        ELSE [ok |-> FALSE, val |-> F64Zero]

\* format!("{}", n) of a usize
RECURSIVE FormatUsize(_)
FormatUsize(n) ==
    IF n < 10 THEN <<DigitChar(n)>>
    ELSE FormatUsize(n \div 10) \o <<DigitChar(n % 10)>>

(***************************************************************************)
(* parse/delimiters.rs                                                     *)
(***************************************************************************)
\* (mutant) without the filter on empty entries
split_blocks_KeepsEmpty(input, delimiter) ==
    IF input = <<>> THEN <<>> ELSE Split(input, delimiter)

split_blocks(input, delimiter) ==
    IF input = <<>> THEN <<>> ELSE NonEmptyOnly(Split(input, delimiter))

split_semicolon_list(input) ==
    IF input = <<>> THEN <<>> ELSE NonEmptyOnly(Split(input, ";"))

non_empty(input) ==
    IF input = <<>> THEN [some |-> FALSE, val |-> <<>>]
    ELSE [some |-> TRUE, val |-> input]

\* parts.get(index).copied().unwrap_or("")
hash_field(parts, index) ==
    IF index < Len(parts) THEN parts[index + 1] ELSE <<>>

\* parts.get(index).unwrap_or(&"0")
GetOrZeroText(parts, index) ==
    IF index < Len(parts) THEN parts[index + 1] ELSE <<"0">>

\* Result::unwrap_or
UnwrapOr(r, default) == IF r.ok THEN r.val ELSE default

parse_f64(s) == UnwrapOr(FromStrF64(s), F64Zero)

parse_i64(s) == UnwrapOr(FromStrI64(s), I64Zero)

parse_i32(s) == UnwrapOr(FromStrI32(s), 0)


(***************************************************************************)
(* The sub-grammar parsers.  A closure of filter_map returns Some(element),*)
(* None, or panics; collect() gives the elements in block order, and a     *)
(* panic in any block is a panic of the parser.                            *)
(***************************************************************************)
SomeOf(v) == [kind |-> "some", val |-> v]
NoneOf == [kind |-> "none", val |-> <<>>]
PanicOf == [kind |-> "panic", val |-> <<>>]

Collected(v) == [panic |-> FALSE, val |-> v]
Panicked == [panic |-> TRUE, val |-> <<>>]

\* blocks.filter_map(F).collect()
RECURSIVE FilterMapCollect(_, _, _)
FilterMapCollect(blocks, F(_), acc) ==
    IF blocks = <<>> THEN Collected(acc)
    ELSE LET e == F(blocks[1])
         IN  IF e.kind = "panic" THEN Panicked
             ELSE FilterMapCollect(Tail(blocks), F,
                                   IF e.kind = "some" THEN Append(acc, e.val) ELSE acc)

\* parse/counts.rs: the LocationV1 embedded in a count block, parts 3..9
CountLocation(parts) ==
    [location_type |-> parse_i32(hash_field(parts, 3)),
     full_name |-> hash_field(parts, 4),
     country_code |-> hash_field(parts, 5),
     adm1_code |-> hash_field(parts, 6),
     latitude |-> parse_f64(hash_field(parts, 7)),
     longitude |-> parse_f64(hash_field(parts, 8)),
     feature_id |-> hash_field(parts, 9)]

\* (mutant) a block of a single part is kept
CountV1Block_NoMinimum(block) ==
    LET parts == Split(block, "#")
    IN  IF Len(parts) < 1 THEN NoneOf
        ELSE SomeOf([count_type |-> hash_field(parts, 0),
                     count |-> parse_i64(hash_field(parts, 1)),
                     object_type |-> hash_field(parts, 2),
                     location |-> CountLocation(parts)])

CountV1Block(block) ==
    LET parts == Split(block, "#")
    IN  IF Len(parts) < 2 THEN NoneOf
        ELSE SomeOf([count_type |-> hash_field(parts, 0),
                     count |-> parse_i64(hash_field(parts, 1)),
                     object_type |-> hash_field(parts, 2),
                     location |-> CountLocation(parts)])

parse_counts_v1(field) ==
    IF field = <<>> THEN Collected(<<>>)
    ELSE FilterMapCollect(NonEmptyOnly(Split(field, ";")), CountV1Block, <<>>)

CountV21Block(block) ==
    LET parts == Split(block, "#")
    IN  IF Len(parts) < 2 THEN NoneOf
        ELSE SomeOf([count_type |-> hash_field(parts, 0),
                     count |-> parse_i64(hash_field(parts, 1)),
                     object_type |-> hash_field(parts, 2),
                     location |-> CountLocation(parts),
                     char_offset |-> parse_i64(hash_field(parts, 10))])

parse_counts_v21(field) ==
    IF field = <<>> THEN Collected(<<>>)
    ELSE FilterMapCollect(NonEmptyOnly(Split(field, ";")), CountV21Block, <<>>)

\* parse/themes.rs
ThemeV1Block(s) == SomeOf(s)

parse_themes_v1(field) ==
    IF field = <<>> THEN Collected(<<>>)
    ELSE FilterMapCollect(NonEmptyOnly(Split(field, ";")), ThemeV1Block, <<>>)

EnhancedThemeBlock(block) ==
    LET parts == SplitN(block, 2, ",")
    IN  IF Len(parts) < 1 THEN NoneOf
        ELSE SomeOf([theme |-> parts[1],
                     char_offset |-> IF Len(parts) >= 2 THEN parse_i64(parts[2])
                                     ELSE I64Zero])

parse_enhanced_themes(field) ==
    IF field = <<>> THEN Collected(<<>>)
    ELSE FilterMapCollect(NonEmptyOnly(Split(field, ";")), EnhancedThemeBlock, <<>>)

\* parse/locations.rs
\* (mutant) a block of fewer than 7 parts gives no location
LocationV1Block_Strict(block) ==
    LET parts == Split(block, "#")
    IN  IF Len(parts) < 7 THEN NoneOf
        ELSE SomeOf([location_type |-> parse_i32(hash_field(parts, 0)),
                     full_name |-> hash_field(parts, 1),
                     country_code |-> hash_field(parts, 2),
                     adm1_code |-> hash_field(parts, 3),
                     latitude |-> parse_f64(hash_field(parts, 4)),
                     longitude |-> parse_f64(hash_field(parts, 5)),
                     feature_id |-> hash_field(parts, 6)])

LocationV1Block(block) ==
    LET parts == Split(block, "#")
    IN  IF parts = <<>> THEN NoneOf
        ELSE SomeOf([location_type |-> parse_i32(hash_field(parts, 0)),
                     full_name |-> hash_field(parts, 1),
                     country_code |-> hash_field(parts, 2),
                     adm1_code |-> hash_field(parts, 3),
                     latitude |-> parse_f64(hash_field(parts, 4)),
                     longitude |-> parse_f64(hash_field(parts, 5)),
                     feature_id |-> hash_field(parts, 6)])

parse_locations_v1(field) ==
    IF field = <<>> THEN Collected(<<>>)
    ELSE FilterMapCollect(NonEmptyOnly(Split(field, ";")), LocationV1Block, <<>>)

\* (mutant) latitude, longitude and feature id read at their basic positions
EnhancedLocationBlock_BasicPositions(block) ==
    LET parts == Split(block, "#")
    IN  IF parts = <<>> THEN NoneOf
        ELSE SomeOf([location_type |-> parse_i32(hash_field(parts, 0)),
                     full_name |-> hash_field(parts, 1),
                     country_code |-> hash_field(parts, 2),
                     adm1_code |-> hash_field(parts, 3),
                     adm2_code |-> hash_field(parts, 4),
                     latitude |-> parse_f64(hash_field(parts, 4)),
                     longitude |-> parse_f64(hash_field(parts, 5)),
                     feature_id |-> hash_field(parts, 6),
                     char_offset |-> parse_i64(hash_field(parts, 8))])

EnhancedLocationBlock(block) ==
    LET parts == Split(block, "#")
    IN  IF parts = <<>> THEN NoneOf
        ELSE SomeOf([location_type |-> parse_i32(hash_field(parts, 0)),
                     full_name |-> hash_field(parts, 1),
                     country_code |-> hash_field(parts, 2),
                     adm1_code |-> hash_field(parts, 3),
                     adm2_code |-> hash_field(parts, 4),
                     latitude |-> parse_f64(hash_field(parts, 5)),
                     longitude |-> parse_f64(hash_field(parts, 6)),
                     feature_id |-> hash_field(parts, 7),
                     char_offset |-> parse_i64(hash_field(parts, 8))])

parse_enhanced_locations(field) ==
    IF field = <<>> THEN Collected(<<>>)
    ELSE FilterMapCollect(NonEmptyOnly(Split(field, ";")), EnhancedLocationBlock, <<>>)

\* parse/persons.rs
PersonV1Block(s) == SomeOf(s)

parse_persons_v1(field) ==
    IF field = <<>> THEN Collected(<<>>)
    ELSE FilterMapCollect(NonEmptyOnly(Split(field, ";")), PersonV1Block, <<>>)

\* (mutant) the offset is sliced from two bytes after the comma
EnhancedEntityBlock_SliceOffByOne(block) ==
    LET comma_pos == RFind(block, ",")
        name == SliceStr(block, 0, comma_pos.val)
        rest == SliceStr(block, comma_pos.val + 2, Len(block))
    IN  IF ~comma_pos.some THEN NoneOf
        ELSE IF name.panic \/ rest.panic THEN PanicOf
        ELSE IF name.val = <<>> THEN NoneOf
        ELSE SomeOf([name |-> name.val, char_offset |-> parse_i64(rest.val)])

EnhancedEntityBlock(block) ==
    LET comma_pos == RFind(block, ",")
        name == SliceStr(block, 0, comma_pos.val)
        rest == SliceStr(block, comma_pos.val + 1, Len(block))
    IN  IF ~comma_pos.some THEN NoneOf
        ELSE IF name.panic \/ rest.panic THEN PanicOf
        ELSE IF name.val = <<>> THEN NoneOf
        ELSE SomeOf([name |-> name.val, char_offset |-> parse_i64(rest.val)])

parse_enhanced_entities(field) ==
    IF field = <<>> THEN Collected(<<>>)
    ELSE FilterMapCollect(NonEmptyOnly(Split(field, ";")), EnhancedEntityBlock, <<>>)


\* parse/tone.rs
\* (mutant) without the early return on an empty field
parse_tone_NoEmptyCheck(field) ==
    LET parts == Split(field, ",")
    IN  [some |-> TRUE,
         val |-> [tone |-> parse_f64(GetOrZeroText(parts, 0)),
                  positive_score |-> parse_f64(GetOrZeroText(parts, 1)),
                  negative_score |-> parse_f64(GetOrZeroText(parts, 2)),
                  polarity |-> parse_f64(GetOrZeroText(parts, 3)),
                  activity_ref_density |-> parse_f64(GetOrZeroText(parts, 4)),
                  self_group_ref_density |-> parse_f64(GetOrZeroText(parts, 5)),
                  word_count |-> parse_i64(GetOrZeroText(parts, 6))]]

parse_tone(field) ==
    LET parts == Split(field, ",")
    IN  IF field = <<>> THEN [some |-> FALSE, val |-> <<>>]
        ELSE IF parts = <<>> THEN [some |-> FALSE, val |-> <<>>]
        ELSE [some |-> TRUE,
              val |-> [tone |-> parse_f64(GetOrZeroText(parts, 0)),
                       positive_score |-> parse_f64(GetOrZeroText(parts, 1)),
                       negative_score |-> parse_f64(GetOrZeroText(parts, 2)),
                       polarity |-> parse_f64(GetOrZeroText(parts, 3)),
                       activity_ref_density |-> parse_f64(GetOrZeroText(parts, 4)),
                       self_group_ref_density |-> parse_f64(GetOrZeroText(parts, 5)),
                       word_count |-> parse_i64(GetOrZeroText(parts, 6))]]

\* parse/dates.rs
EnhancedDateBlock(block) ==
    LET parts == Split(block, ",")
    IN  IF parts = <<>> THEN NoneOf
        ELSE SomeOf([resolution |-> parse_i32(GetOrZeroText(parts, 0)),
                     month |-> parse_i32(GetOrZeroText(parts, 1)),
                     day |-> parse_i32(GetOrZeroText(parts, 2)),
                     year |-> parse_i32(GetOrZeroText(parts, 3)),
                     char_offset |-> parse_i64(GetOrZeroText(parts, 4))])

parse_enhanced_dates(field) ==
    IF field = <<>> THEN Collected(<<>>)
    ELSE FilterMapCollect(NonEmptyOnly(Split(field, ";")), EnhancedDateBlock, <<>>)

\* parse/gcam.rs
GcamPair(pair) ==
    LET kv == SplitN(pair, 2, ":")
    IN  IF Len(kv) < 1 THEN NoneOf
        ELSE SomeOf([dimension |-> kv[1],
                     value |-> IF Len(kv) >= 2 THEN parse_f64(kv[2]) ELSE F64Zero])

parse_gcam(field) ==
    IF field = <<>> THEN Collected(<<>>)
    ELSE FilterMapCollect(NonEmptyOnly(Split(field, ",")), GcamPair, <<>>)

\* parts[i]: panics when i is out of bounds
IndexOrPanic(parts, i) ==
    IF i < Len(parts) THEN [panic |-> FALSE, val |-> parts[i + 1]]
    ELSE [panic |-> TRUE, val |-> <<>>]

\* (mutant) a quotation whose offset or length is no number is dropped
QuotationBlock_Strict(block) ==
    LET parts == Split(block, "|")
    IN  IF Len(parts) < 4 THEN NoneOf
        ELSE IF ~FromStrI64(parts[1]).ok \/ ~FromStrI64(parts[2]).ok THEN NoneOf
        ELSE SomeOf([offset |-> parse_i64(parts[1]),
                     length |-> parse_i64(parts[2]),
                     verb |-> parts[3],
                     quote |-> parts[4]])

\* parse/quotations.rs
QuotationBlock(block) ==
    LET parts == Split(block, "|")
        p0 == IndexOrPanic(parts, 0)
        p1 == IndexOrPanic(parts, 1)
        p2 == IndexOrPanic(parts, 2)
        p3 == IndexOrPanic(parts, 3)
    IN  IF Len(parts) < 4 THEN NoneOf
        ELSE IF p0.panic \/ p1.panic \/ p2.panic \/ p3.panic THEN PanicOf
        ELSE SomeOf([offset |-> parse_i64(p0.val),
                     length |-> parse_i64(p1.val),
                     verb |-> p2.val,
                     quote |-> p3.val])

parse_quotations(field) ==
    IF field = <<>> THEN Collected(<<>>)
    ELSE FilterMapCollect(NonEmptyOnly(Split(field, "#")), QuotationBlock, <<>>)

\* parse/names.rs
NameBlock(block) ==
    LET comma_pos == RFind(block, ",")
        name == SliceStr(block, 0, comma_pos.val)
        rest == SliceStr(block, comma_pos.val + 1, Len(block))
    IN  IF ~comma_pos.some THEN NoneOf
        ELSE IF name.panic \/ rest.panic THEN PanicOf
        ELSE IF name.val = <<>> THEN NoneOf
        ELSE SomeOf([name |-> name.val, char_offset |-> parse_i64(rest.val)])

parse_names(field) ==
    IF field = <<>> THEN Collected(<<>>)
    ELSE FilterMapCollect(NonEmptyOnly(Split(field, ";")), NameBlock, <<>>)

\* parse/amounts.rs
AmountBlock(block) ==
    LET parts == SplitN(block, 3, ",")
    IN  IF parts = <<>> THEN NoneOf
        ELSE SomeOf([amount |-> parse_f64(GetOrZeroText(parts, 0)),
                     object |-> hash_field(parts, 1),
                     char_offset |-> parse_i64(GetOrZeroText(parts, 2))])

parse_amounts(field) ==
    IF field = <<>> THEN Collected(<<>>)
    ELSE FilterMapCollect(NonEmptyOnly(Split(field, ";")), AmountBlock, <<>>)

\* parse/translation.rs
SrclcPrefix == <<"s", "r", "c", "l", "c", ":">>
EngPrefix == <<"e", "n", "g", ":">>

\* the loop over field.split(';'): a later token overwrites an earlier one
RECURSIVE TranslationLoop(_, _)
TranslationLoop(parts, acc) ==
    IF parts = <<>> THEN acc
    ELSE LET part == Trim(parts[1])
             lang == StripPrefix(part, SrclcPrefix)
             eng == StripPrefix(part, EngPrefix)
         IN  TranslationLoop(Tail(parts),
                 IF lang.some THEN [acc EXCEPT !.source_language = Trim(lang.val)]
                 ELSE IF eng.some THEN [acc EXCEPT !.engine = Trim(eng.val)]
                 ELSE acc)

parse_translation_info(field) ==
    LET info == TranslationLoop(Split(field, ";"),
                                [source_language |-> <<>>, engine |-> <<>>])
    IN  IF field = <<>> THEN [some |-> FALSE, val |-> <<>>]
        ELSE IF info.source_language = <<>> /\ info.engine = <<>>
        THEN [some |-> FALSE, val |-> <<>>]
        ELSE [some |-> TRUE, val |-> info]

(***************************************************************************)
(* parse/mod.rs: parse_record                                              *)
(***************************************************************************)
\* (mutant) the test is `fields.len() <= 5`
TooFewFields_OffByOne(fields) == Len(fields) <= 5

\* fields.len() < 5
TooFewFields(fields) == Len(fields) < 5

ParseMessagePrefix == "Expected at least 5 tab-delimited fields, got "

\* (mutant) the organizations are read from the field of the persons
GetField_OrganizationsFromPersons(fields, i) ==
    LET k == IF i = 13 THEN 11 ELSE i
    IN  IF k < Len(fields) THEN fields[k + 1] ELSE <<>>

\* (mutant) a missing field reads the last field of the line
GetField_Clamped(fields, i) ==
    IF i < Len(fields) THEN fields[i + 1] ELSE fields[Len(fields)]

\* the closure `get`: fields.get(i).copied().unwrap_or("")
GetField(fields, i) == IF i < Len(fields) THEN fields[i + 1] ELSE <<>>

\* the list-valued sub-parser results of a record, in field order
RecordLists(fields) ==
    [v1_counts |-> parse_counts_v1(GetField(fields, 5)),
     v21_counts |-> parse_counts_v21(GetField(fields, 6)),
     v1_themes |-> parse_themes_v1(GetField(fields, 7)),
     v2_enhanced_themes |-> parse_enhanced_themes(GetField(fields, 8)),
     v1_locations |-> parse_locations_v1(GetField(fields, 9)),
     v2_enhanced_locations |-> parse_enhanced_locations(GetField(fields, 10)),
     v1_persons |-> parse_persons_v1(GetField(fields, 11)),
     v2_enhanced_persons |-> parse_enhanced_entities(GetField(fields, 12)),
     v1_organizations |-> parse_persons_v1(GetField(fields, 13)),
     v2_enhanced_organizations |-> parse_enhanced_entities(GetField(fields, 14)),
     v21_enhanced_dates |-> parse_enhanced_dates(GetField(fields, 16)),
     gcam |-> parse_gcam(GetField(fields, 17)),
     quotations |-> parse_quotations(GetField(fields, 22)),
     all_names |-> parse_names(GetField(fields, 23)),
     amounts |-> parse_amounts(GetField(fields, 24))]

ListFields == DOMAIN RecordLists(<< <<>> >>)

\* the GkgRecord literal, `lists` being the results of the list parsers
GkgRecordOf(fields, lists) ==
    [f \in ListFields |-> lists[f].val] @@
    [gkg_record_id |-> GetField(fields, 0),
     date |-> parse_i64(GetField(fields, 1)),
     source_collection_id |-> parse_i32(GetField(fields, 2)),
     source_common_name |-> GetField(fields, 3),
     document_identifier |-> GetField(fields, 4),
     tone |-> parse_tone(GetField(fields, 15)),
     sharing_image |-> non_empty(GetField(fields, 18)),
     related_images |-> split_semicolon_list(GetField(fields, 19)),
     social_image_embeds |-> split_semicolon_list(GetField(fields, 20)),
     social_video_embeds |-> split_semicolon_list(GetField(fields, 21)),
     translation_info |-> parse_translation_info(GetField(fields, 25)),
     extras_xml |-> non_empty(GetField(fields, 26))]

\* (mutant) the message of the rejection also names the record id
ParseFields_MessageNamesId(fields, lists, n) ==
    IF TooFewFields(fields)
    THEN [tag |-> "Err", kind |-> "Parse", line |-> n,
          message |-> <<ParseMessagePrefix, FormatUsize(Len(fields)), fields[1]>>]
    ELSE IF \E f \in ListFields : lists[f].panic
    THEN [tag |-> "Panic"]
    ELSE [tag |-> "Ok", record |-> GkgRecordOf(fields, lists)]

\* parse_record after the split, `lists` being the results of the list parsers
ParseFields(fields, lists, n) ==
    IF TooFewFields(fields)
    THEN [tag |-> "Err", kind |-> "Parse", line |-> n,
          message |-> <<ParseMessagePrefix, FormatUsize(Len(fields))>>]
    ELSE IF \E f \in ListFields : lists[f].panic
    THEN [tag |-> "Panic"]
    ELSE [tag |-> "Ok", record |-> GkgRecordOf(fields, lists)]

ParseSplit(fields, n) == ParseFields(fields, RecordLists(fields), n)

parse_record(ln, n) == ParseSplit(Split(ln, HT), n)


(***************************************************************************)
(* parse/reader.rs: GkgReader                                              *)
(*                                                                         *)
(* The underlying stream is [data, pos, faults, fired]: the bytes of the   *)
(* input, the number of bytes consumed, the offsets at which a read of the *)
(* stream reports an I/O failure once (after delivering the bytes before   *)
(* that offset), and those of them that have done so.  A stream that is at *)
(* its end reports end of input.                                           *)
(***************************************************************************)
MinOf(S) == CHOOSE x \in S : \A y \in S : x <= y

\* BufRead::read_line into the cleared line_buf: reads through the next
\* line feed or to the end of input.  It fails when the stream reports a
\* failure (the bytes delivered before it are consumed) and when the bytes
\* read are not valid UTF-8 (they are consumed, and the buffer stays empty).
ReadLine(inn) ==
    LET nls == {i \in (inn.pos + 1)..Len(inn.data) : inn.data[i] = LF}
        stop == IF nls = {} THEN Len(inn.data) ELSE MinOf(nls)
        hit == {p \in inn.faults \ inn.fired : inn.pos <= p /\ p < stop}
        bytes == SubSeq(inn.data, inn.pos + 1, stop)
    IN  IF hit # {}
        THEN [ok |-> FALSE, n |-> 0, buf |-> <<>>, error |-> "Other",
              inner |-> [inn EXCEPT !.pos = MinOf(hit), !.fired = @ \cup {MinOf(hit)}]]
        ELSE IF ~IsValidUtf8(bytes)
        THEN [ok |-> FALSE, n |-> 0, buf |-> <<>>, error |-> "InvalidData",
              inner |-> [inn EXCEPT !.pos = stop]]
        ELSE [ok |-> TRUE, n |-> Len(bytes), buf |-> bytes, error |-> "",
              inner |-> [inn EXCEPT !.pos = stop]]

\* (mutant) the end of input is counted as a line
RECURSIVE GkgReaderNext_CountsEnd(_, _)
GkgReaderNext_CountsEnd(inn, ln) ==
    LET r == ReadLine(inn)
        text == TrimEndMatches(TrimEndMatches(r.buf, LF), CR)
    IN  IF r.ok /\ r.n = 0
        THEN [inner |-> r.inner, line_number |-> ln + 1,
              ret |-> [tag |-> "None", from |-> inn.pos, upto |-> r.inner.pos]]
        ELSE IF r.ok
        THEN IF text = <<>>
             THEN GkgReaderNext_CountsEnd(r.inner, ln + 1)
             ELSE [inner |-> r.inner, line_number |-> ln + 1,
                   ret |-> [tag |-> "Ok", num |-> ln + 1, text |-> text,
                            from |-> inn.pos, upto |-> r.inner.pos]]
        ELSE [inner |-> r.inner, line_number |-> ln,
              ret |-> [tag |-> "Err", kind |-> "Io", error |-> r.error,
                       from |-> inn.pos, upto |-> r.inner.pos]]

\* (mutant) a blank line is reported as an error instead of being skipped
GkgReaderNext_BlankIsError(inn, ln) ==
    LET r == ReadLine(inn)
        text == TrimEndMatches(TrimEndMatches(r.buf, LF), CR)
    IN  IF r.ok /\ r.n = 0
        THEN [inner |-> r.inner, line_number |-> ln,
              ret |-> [tag |-> "None", from |-> inn.pos, upto |-> r.inner.pos]]
        ELSE IF r.ok
        THEN IF text = <<>>
             THEN [inner |-> r.inner, line_number |-> ln + 1,
                   ret |-> [tag |-> "Err", kind |-> "Parse", error |-> "Other",
                            from |-> inn.pos, upto |-> r.inner.pos]]
             ELSE [inner |-> r.inner, line_number |-> ln + 1,
                   ret |-> [tag |-> "Ok", num |-> ln + 1, text |-> text,
                            from |-> inn.pos, upto |-> r.inner.pos]]
        ELSE [inner |-> r.inner, line_number |-> ln,
              ret |-> [tag |-> "Err", kind |-> "Io", error |-> r.error,
                       from |-> inn.pos, upto |-> r.inner.pos]]

\* GkgReader::next.  The result holds the reader's fields after the call and
\* the value returned; `from` and `upto` (not part of the Rust value) record
\* the stream offsets between which the last read_line of the call read.
RECURSIVE GkgReaderNext(_, _)
GkgReaderNext(inn, ln) ==
    LET r == ReadLine(inn)
        text == TrimEndMatches(TrimEndMatches(r.buf, LF), CR)
    IN  IF r.ok /\ r.n = 0
        THEN [inner |-> r.inner, line_number |-> ln,
              ret |-> [tag |-> "None", from |-> inn.pos, upto |-> r.inner.pos]]
        ELSE IF r.ok
        THEN IF text = <<>>
             THEN GkgReaderNext(r.inner, ln + 1)
             ELSE [inner |-> r.inner, line_number |-> ln + 1,
                   ret |-> [tag |-> "Ok", num |-> ln + 1, text |-> text,
                            from |-> inn.pos, upto |-> r.inner.pos]]
        ELSE [inner |-> r.inner, line_number |-> ln,
              ret |-> [tag |-> "Err", kind |-> "Io", error |-> r.error,
                       from |-> inn.pos, upto |-> r.inner.pos]]


(***************************************************************************)
(* filter/: the record filters the read loop consults                      *)
(***************************************************************************)
\* str::to_lowercase on the bytes of the model ("S" is its only upper-case letter)
ToLowercase(s) == [i \in 1..Len(s) |-> IF s[i] = "S" THEN "s" ELSE s[i]]

\* str::contains(pat)
Contains(s, pat) ==
    \E i \in 0..(Len(s) - Len(pat)) : SubSeq(s, i + 1, i + Len(pat)) = pat

\* a < b on i64 values
I64Less(a, b) ==
    IF a.neg # b.neg THEN a.neg
    ELSE a # b /\ (IF a.neg THEN MagLE(b.mag, a.mag) ELSE MagLE(a.mag, b.mag))

\* filter/predicates.rs: DateRangeFilter, SourceFilter, HasImageFilter and
\* HasQuoteFilter
FilterMatches(f, record) ==
    CASE f.kind = "DateRange" ->
            /\ ~(f.from.some /\ I64Less(record.date, f.from.val))
            /\ ~(f.to.some /\ I64Less(f.to.val, record.date))
      [] f.kind = "Source" ->
            Contains(ToLowercase(record.source_common_name), ToLowercase(f.pattern))
      [] f.kind = "HasImage" -> record.sharing_image.some
      [] f.kind = "HasQuote" -> record.quotations # <<>>

\* (mutant) self.filters.iter().any(..)
CompositeMatches_Any(filters, record) ==
    \E i \in 1..Len(filters) : FilterMatches(filters[i], record)

\* filter/mod.rs: CompositeFilter::matches
CompositeMatches(filters, record) ==
    \A i \in 1..Len(filters) : FilterMatches(filters[i], record)

(***************************************************************************)
(* output/: an OutputFormatter as the read loop sees it.  `calls` counts   *)
(* the calls made on it, `fail_at` is the call (if any) whose write to the *)
(* underlying writer fails, `out` is what it has accepted so far, `made`   *)
(* names every call made on it, failed or not.                             *)
(***************************************************************************)
FormatterCall(fmt, what) ==
    IF fmt.calls + 1 = fmt.fail_at
    THEN [ok |-> FALSE, fmt |-> [fmt EXCEPT !.calls = @ + 1, !.made = Append(@, what[1])]]
    ELSE [ok |-> TRUE, fmt |-> [fmt EXCEPT !.calls = @ + 1, !.made = Append(@, what[1]),
                                           !.out = Append(@, what)]]

(***************************************************************************)
(* main.rs: the read loops                                                 *)
(***************************************************************************)
\* run_pipeline, the Ok arm of the match: `wr` is the result of write_record
RunPipelineOk(lp, record, wr) ==
    IF ~CompositeMatches(lp.filters, record) THEN lp
    ELSE IF lp.skipped < (IF lp.offset.some THEN lp.offset.val ELSE 0)
    THEN [lp EXCEPT !.skipped = @ + 1]
    ELSE IF ~wr.ok
    THEN [lp EXCEPT !.fmt = wr.fmt, !.pc = "done",
                    !.outcome = [tag |-> "Err", kind |-> "Io", error |-> "Write"]]
    ELSE IF lp.limit.some /\ lp.count + 1 >= lp.limit.val
    THEN [lp EXCEPT !.fmt = wr.fmt, !.count = @ + 1, !.pc = "finish"]
    ELSE [lp EXCEPT !.fmt = wr.fmt, !.count = @ + 1]

\* run_pipeline, the match on `parsed`, the result of parse_record
RunPipelineMatch(lp, item, parsed) ==
    IF parsed.tag = "Panic"
    THEN [lp EXCEPT !.pc = "done", !.outcome = [tag |-> "Panic", kind |-> "", error |-> ""]]
    ELSE IF parsed.tag = "Err"
    THEN [lp EXCEPT !.errors = @ + 1, !.warned = Append(@, item.num)]
    ELSE RunPipelineOk(lp, parsed.record,
                       FormatterCall(lp.fmt, <<"record", parsed.record>>))

\* One pass through the body of `for result in gkg_reader` in run_pipeline,
\* `item` being what the reader returned.
RunPipelineBody(lp, item) ==
    IF item.tag = "None" THEN [lp EXCEPT !.pc = "finish"]
    ELSE IF item.tag = "Err"
    THEN [lp EXCEPT !.pc = "done",
                    !.outcome = [tag |-> "Err", kind |-> item.kind, error |-> item.error]]
    ELSE RunPipelineMatch(lp, item, parse_record(item.text, item.num))

\* cmd_analyze, the match on `parsed`, the result of parse_record
CmdAnalyzeMatch(lp, item, parsed) ==
    IF parsed.tag = "Panic"
    THEN [lp EXCEPT !.pc = "done", !.outcome = [tag |-> "Panic", kind |-> "", error |-> ""]]
    ELSE IF parsed.tag = "Err"
    THEN [lp EXCEPT !.errors = @ + 1, !.warned = Append(@, item.num)]
    ELSE [lp EXCEPT !.records = Append(@, parsed.record)]

\* One pass through the body of `for result in gkg_reader` in cmd_analyze.
CmdAnalyzeBody(lp, item) ==
    IF item.tag = "None" THEN [lp EXCEPT !.pc = "parsed"]
    ELSE IF item.tag = "Err"
    THEN [lp EXCEPT !.pc = "done",
                    !.outcome = [tag |-> "Err", kind |-> item.kind, error |-> item.error]]
    ELSE CmdAnalyzeMatch(lp, item, parse_record(item.text, item.num))

\* (mutant) a line that parse_record rejects is counted and ends the loop
LoopBody_StopsOnReject(lp, item) ==
    IF item.tag = "Ok" /\ parse_record(item.text, item.num).tag = "Err"
    THEN [lp EXCEPT !.errors = @ + 1, !.warned = Append(@, item.num),
                    !.pc = IF lp.prog = "run_pipeline" THEN "finish" ELSE "parsed"]
    ELSE IF lp.prog = "run_pipeline" THEN RunPipelineBody(lp, item)
    ELSE CmdAnalyzeBody(lp, item)

\* (mutant) an error of the reader is counted and the loop goes on
LoopBody_SkipsReadError(lp, item) ==
    IF item.tag = "Err" THEN [lp EXCEPT !.errors = @ + 1]
    ELSE IF lp.prog = "run_pipeline" THEN RunPipelineBody(lp, item)
    ELSE CmdAnalyzeBody(lp, item)

LoopBody(lp, item) ==
    IF lp.prog = "run_pipeline" THEN RunPipelineBody(lp, item)
    ELSE CmdAnalyzeBody(lp, item)


(***************************************************************************)
(* Bounds and input sets                                                   *)
(***************************************************************************)
MaxInput == 4      \* bytes in the stream given to a GkgReader on its own
MaxCalls == 5      \* calls of next() on a GkgReader on its own

ReaderBytes == {"x", " ", CR, LF, "FF"}

BoundedSeqs(S, n) == UNION {[1..k -> S] : k \in 0..n}

\* the streams over `datas` that report no I/O failure, or one at an offset
Streams(datas, offsets(_)) ==
    UNION {{[data |-> d, pos |-> 0, faults |-> F, fired |-> {}] :
                F \in {{}} \cup {{p} : p \in offsets(d)}} :
           d \in datas}

AnyOffset(d) == 0..(Len(d) - 1)

NotCalled == [tag |-> "NotCalled"]

IdleStream == [data |-> <<>>, pos |-> 0, faults |-> {}, fired |-> {}]
IdleLoop == [prog |-> "none", pc |-> "done"]

\* no helper function called, no CompositeFilter and no JsonFormatter made
NoCall == [fn |-> "none"]
NoComposite == [made |-> FALSE]
NoFormatter == [made |-> FALSE]

\* the threads that call parse_record, and a thread outside any call
Threads == {"t1", "t2"}
IdleThread ==
    [pc |-> "idle", line |-> <<>>, n |-> 0, fields |-> <<>>,
     lists |-> RecordLists(<< <<>> >>), result |-> NotCalled]
IdleThreads == [t \in Threads |-> IdleThread]

(***************************************************************************)
(* ReaderSpec: a GkgReader over every bounded stream, next() called        *)
(* repeatedly (also after an error and after the end of input).            *)
(***************************************************************************)
ReaderInit ==
    /\ inner \in Streams(BoundedSeqs(ReaderBytes, MaxInput), AnyOffset)
    /\ line_number = 0
    /\ ret = NotCalled
    /\ yielded = <<>>
    /\ line = <<>>
    /\ line_num = 0
    /\ result = NotCalled
    /\ loop = IdleLoop
    /\ threads = IdleThreads
    /\ calls = <<>>
    /\ call = NoCall
    /\ composite = NoComposite
    /\ json = NoFormatter

CallNext ==
    /\ Len(yielded) < MaxCalls
    /\ LET r == GkgReaderNext(inner, line_number)
       IN  /\ inner' = r.inner
           /\ line_number' = r.line_number
           /\ ret' = r.ret
           /\ yielded' = Append(yielded, r.ret)
    /\ UNCHANGED <<call, composite, json, threads, calls, line, line_num, result, loop>>

ReaderNext == CallNext

ReaderSpec == ReaderInit /\ [][ReaderNext]_vars


(***************************************************************************)
(* ParseSpec: parse_record called on a line.  The lines are those of k     *)
(* fields, 1 <= k <= MaxFields, and those of all 27 fields, in which one   *)
(* field holds a text made of the tokens of its grammar (one token at most *)
(* in the first family, MaxText tokens at most in the second) and every    *)
(* other field holds "x".                                                  *)
(***************************************************************************)
MaxFields == 28    \* tab fields in a line (one more than the record reads)
MaxText == 3       \* tokens in the text of the varied field
FullFields == 27   \* the fields parse_record reads

LineNumbers == {1, 12}

\* the tokens a field's text is made of: the delimiters of its grammar, a
\* digit, a letter, and what its grammar needs to reach every sub-field
Tokens(j) ==
    CASE j \in {1, 2} -> {<<"1">>, <<"-">>, <<"x">>, <<"0">>}
      [] j \in {5, 6} -> {<<";">>, <<"#">>, <<"1">>, <<"x">>}
      [] j \in {7, 11, 13, 19, 20, 21} -> {<<";">>, <<",">>, <<"x">>}
      [] j \in {8, 16, 24} -> {<<";">>, <<",">>, <<"1">>, <<"x">>}
      [] j \in {9, 10} -> {<<";">>, <<"#">>, <<"1">>, <<"x">>, <<"#", "#", "#">>,
                            <<"#", "#", "#", "#">>}
      [] j \in {12, 14, 23} -> {<<";">>, <<",">>, <<"1">>, <<"x">>, <<"C3", "A9">>,
                                <<"x", ",">>}
      [] j = 15 -> {<<",">>, <<"1">>, <<"x">>, <<".">>, <<",", ",", ",", ",", ",">>}
      [] j = 17 -> {<<",">>, <<":">>, <<"1">>, <<"x">>}
      [] j = 22 -> {<<"#">>, <<"|">>, <<"1">>, <<"x">>, <<"|", "|">>, <<"|", "|", "|">>}
      [] j = 25 -> {<<";">>, <<" ">>, <<"x">>, SrclcPrefix, EngPrefix}
      [] OTHER -> {<<"x">>, <<"C3", "A9">>, <<";">>}

RECURSIVE Flatten(_)
Flatten(ss) == IF ss = <<>> THEN <<>> ELSE ss[1] \o Flatten(Tail(ss))

Texts(j, n) == {Flatten(ts) : ts \in BoundedSeqs(Tokens(j), n)}

\* the line of k fields whose field j is t, every other field being "x"
MkLine(k, j, t) ==
    Flatten([i \in 1..(2 * k - 1) |->
                IF i % 2 = 0 THEN <<HT>>
                ELSE IF (i - 1) \div 2 = j THEN t
                ELSE <<"x">>])

Lines ==
    UNION {UNION {{MkLine(k, j, t) : t \in Texts(j, 1)} : j \in 0..(k - 1)} :
           k \in 1..MaxFields}
    \cup UNION {{MkLine(FullFields, j, t) : t \in Texts(j, MaxText)} :
                j \in 0..(FullFields - 1)}

ParseInit ==
    /\ line \in Lines
    /\ line_num \in LineNumbers
    /\ result = NotCalled
    /\ inner = IdleStream
    /\ line_number = 0
    /\ ret = NotCalled
    /\ yielded = <<>>
    /\ loop = IdleLoop
    /\ threads = IdleThreads
    /\ calls = <<>>
    /\ call = NoCall
    /\ composite = NoComposite
    /\ json = NoFormatter

ParseRecordCall ==
    /\ result = NotCalled
    /\ result' = parse_record(line, line_num)
    /\ UNCHANGED <<call, composite, json, threads, calls, line, line_num, inner, line_number, ret, yielded, loop>>

ParseNext == ParseRecordCall

ParseSpec == ParseInit /\ [][ParseNext]_vars

(***************************************************************************)
(* Spec: the read loops of run_pipeline and cmd_analyze over a GkgReader.  *)
(* The input is a sequence of whole lines; the stream may report one I/O   *)
(* failure at the start of a line.                                         *)
(***************************************************************************)
MaxLines == 3      \* lines in the input of a read loop
MaxLimit == 1      \* largest --limit
MaxOffset == 1     \* largest --offset
MaxFailAt == 2     \* latest formatter call whose write fails

SourceS == <<HT, HT, HT, "s", HT>>      \* a record of source "s"
SourceX == <<HT, HT, HT, "x", HT>>      \* a record of source "x"
TooShort == <<"x", HT, "x">>            \* a line parse_record rejects
InputLines == {SourceS, SourceX, TooShort, <<>>, <<"FF">>}

RECURSIVE JoinLines(_)
JoinLines(ls) == IF ls = <<>> THEN <<>> ELSE ls[1] \o <<LF>> \o JoinLines(Tail(ls))

Inputs == {JoinLines(ls) : ls \in BoundedSeqs(InputLines, MaxLines)}

LineStarts(d) == {p \in 0..(Len(d) - 1) : p = 0 \/ d[p] = LF}

PipelineStreams ==
    UNION {{[data |-> d, pos |-> 0, faults |-> F, fired |-> {}] :
                F \in {{}} \cup {{p} : p \in LineStarts(d)}} : d \in Inputs}

NoneOpt == [some |-> FALSE, val |-> 0]
SomeOpt(v) == [some |-> TRUE, val |-> v]

Running == [tag |-> "Running", kind |-> "", error |-> ""]
Returned == [tag |-> "Ok", kind |-> "", error |-> ""]

FilterSets == {<<>>, <<[kind |-> "Source", pattern |-> <<"S">>]>>}

\* the locals of run_pipeline at its entry, and of cmd_analyze at its loop
RunPipelineEntry ==
    {[prog |-> "run_pipeline", pc |-> "begin", filters |-> fs, offset |-> off,
      limit |-> lim, count |-> 0, skipped |-> 0, errors |-> 0, warned |-> <<>>,
      records |-> <<>>,
      fmt |-> [calls |-> 0, fail_at |-> fa, out |-> <<>>, made |-> <<>>],
      outcome |-> Running] :
        fs \in FilterSets,
        off \in {NoneOpt} \cup {SomeOpt(v) : v \in 1..MaxOffset},
        lim \in {NoneOpt} \cup {SomeOpt(v) : v \in 0..MaxLimit},
        fa \in 0..MaxFailAt}

CmdAnalyzeEntry ==
    [prog |-> "cmd_analyze", pc |-> "loop", filters |-> <<>>, offset |-> NoneOpt,
     limit |-> NoneOpt, count |-> 0, skipped |-> 0, errors |-> 0, warned |-> <<>>,
     records |-> <<>>,
     fmt |-> [calls |-> 0, fail_at |-> 0, out |-> <<>>, made |-> <<>>],
     outcome |-> Running]

Init ==
    /\ inner \in PipelineStreams
    /\ line_number = 0
    /\ ret = NotCalled
    /\ yielded = <<>>
    /\ line = <<>>
    /\ line_num = 0
    /\ result = NotCalled
    /\ loop \in RunPipelineEntry \cup {CmdAnalyzeEntry}
    /\ threads = IdleThreads
    /\ calls = <<>>
    /\ call = NoCall
    /\ composite = NoComposite
    /\ json = NoFormatter

\* run_pipeline: formatter.begin()?
Begin ==
    /\ loop.pc = "begin"
    /\ LET b == FormatterCall(loop.fmt, <<"begin">>)
       IN  loop' = IF b.ok THEN [loop EXCEPT !.fmt = b.fmt, !.pc = "loop"]
                   ELSE [loop EXCEPT !.fmt = b.fmt, !.pc = "done",
                                     !.outcome = [tag |-> "Err", kind |-> "Io",
                                                  error |-> "Write"]]
    /\ UNCHANGED <<call, composite, json, threads, calls, inner, line_number, ret, yielded, line, line_num, result>>

\* one turn of `for result in gkg_reader`: next() and the loop body
Iterate ==
    /\ loop.pc = "loop"
    /\ LET r == GkgReaderNext(inner, line_number)
       IN  /\ inner' = r.inner
           /\ line_number' = r.line_number
           /\ ret' = r.ret
           /\ yielded' = Append(yielded, r.ret)
           /\ loop' = LoopBody(loop, r.ret)
    /\ UNCHANGED <<call, composite, json, threads, calls, line, line_num, result>>

\* run_pipeline: formatter.finish()? and Ok(())
Finish ==
    /\ loop.pc = "finish"
    /\ LET f == FormatterCall(loop.fmt, <<"finish">>)
       IN  loop' = [loop EXCEPT !.fmt = f.fmt, !.pc = "done",
                                !.outcome = IF f.ok THEN Returned
                                            ELSE [tag |-> "Err", kind |-> "Io",
                                                  error |-> "Write"]]
    /\ UNCHANGED <<call, composite, json, threads, calls, inner, line_number, ret, yielded, line, line_num, result>>

\* cmd_analyze: the report of the parse phase, after the loop
Parsed ==
    /\ loop.pc = "parsed"
    /\ loop' = [loop EXCEPT !.pc = "done", !.outcome = Returned]
    /\ UNCHANGED <<call, composite, json, threads, calls, inner, line_number, ret, yielded, line, line_num, result>>

Next == Begin \/ Iterate \/ Finish \/ Parsed

Spec == Init /\ [][Next]_vars

(***************************************************************************)
(* CallsSpec: parse_record called again and again, by two threads at once. *)
(* A call runs in three steps on the locals of its own thread (the split   *)
(* and the length check; the list-valued sub-parsers; the record literal), *)
(* and the steps of the two threads interleave freely.  parse_record takes *)
(* `line` and `line_number` by value and has no static or global item, so  *)
(* a step reads and writes the locals of its own call only.                *)
(***************************************************************************)
MaxParseCalls == 3     \* calls of parse_record in one behaviour

CallInputs == {TooShort, SourceS, SourceX} \X LineNumbers

\* (mutant) the line number of a rejection counts the calls made so far
CallStep_CountsCalls(th) ==
    IF th.pc = "split"
    THEN LET fields == Split(th.line, HT)
         IN  IF TooFewFields(fields)
             THEN [th EXCEPT !.fields = fields, !.pc = "done",
                             !.result = ParseFields(fields, th.lists,
                                                    th.n + Len(calls))]
             ELSE [th EXCEPT !.fields = fields, !.pc = "lists"]
    ELSE IF th.pc = "lists"
    THEN [th EXCEPT !.lists = RecordLists(th.fields), !.pc = "build"]
    ELSE [th EXCEPT !.result = ParseFields(th.fields, th.lists, th.n),
                    !.pc = "done"]

\* one step of a parse_record call, on the locals `th` of the calling thread
CallStep(th) ==
    IF th.pc = "split"
    THEN LET fields == Split(th.line, HT)
         IN  IF TooFewFields(fields)
             THEN [th EXCEPT !.fields = fields, !.pc = "done",
                             !.result = ParseFields(fields, th.lists, th.n)]
             ELSE [th EXCEPT !.fields = fields, !.pc = "lists"]
    ELSE IF th.pc = "lists"
    THEN [th EXCEPT !.lists = RecordLists(th.fields), !.pc = "build"]
    ELSE [th EXCEPT !.result = ParseFields(th.fields, th.lists, th.n),
                    !.pc = "done"]

\* (mutant) the split fields live in one buffer that every thread writes
ThreadStep_SharedFields(ths, t) ==
    LET others == {u \in Threads \ {t} : ths[u].pc \in {"lists", "build"}}
        own == CallStep(ths[t])
    IN  IF ths[t].pc = "split" /\ own.pc = "lists" /\ others # {}
        THEN [u \in Threads |-> IF u = t THEN own
                                ELSE [ths[u] EXCEPT !.fields = own.fields]]
        ELSE [ths EXCEPT ![t] = own]

\* a step of thread t among the threads `ths`
ThreadStep(ths, t) == [ths EXCEPT ![t] = CallStep(ths[t])]

InCall(th) == th.pc \in {"split", "lists", "build"}

CallsInit ==
    /\ threads = IdleThreads
    /\ calls = <<>>
    /\ call = NoCall
    /\ composite = NoComposite
    /\ json = NoFormatter
    /\ inner = IdleStream
    /\ line_number = 0
    /\ ret = NotCalled
    /\ yielded = <<>>
    /\ line = <<>>
    /\ line_num = 0
    /\ result = NotCalled
    /\ loop = IdleLoop

\* thread t calls parse_record(line, line_number)
CallParseRecord(t) ==
    /\ threads[t].pc = "idle"
    /\ Len(calls) + Cardinality({u \in Threads : threads[u].pc # "idle"})
           < MaxParseCalls
    /\ \E in \in CallInputs :
           threads' = [threads EXCEPT ![t] = [IdleThread EXCEPT !.pc = "split",
                                                                !.line = in[1],
                                                                !.n = in[2]]]
    /\ UNCHANGED <<call, composite, json, calls, inner, line_number, ret, yielded, line, line_num,
                   result, loop>>

\* thread t runs the next step of its call
StepParseRecord(t) ==
    /\ InCall(threads[t])
    /\ threads' = ThreadStep(threads, t)
    /\ UNCHANGED <<call, composite, json, calls, inner, line_number, ret, yielded, line, line_num,
                   result, loop>>

\* the call of thread t returns; `during` holds the threads whose call is in
\* progress at that moment
ReturnParseRecord(t) ==
    /\ threads[t].pc = "done"
    /\ calls' = Append(calls, [thread |-> t, line |-> threads[t].line,
                               n |-> threads[t].n,
                               result |-> threads[t].result,
                               during |-> {u \in Threads \ {t} :
                                               threads[u].pc # "idle"}])
    /\ threads' = [threads EXCEPT ![t] = IdleThread]
    /\ UNCHANGED <<call, composite, json, inner, line_number, ret, yielded, line, line_num, result,
                   loop>>

CallsNext ==
    \E t \in Threads :
        CallParseRecord(t) \/ StepParseRecord(t) \/ ReturnParseRecord(t)

CallsSpec == CallsInit /\ [][CallsNext]_vars

(***************************************************************************)
(* FunctionsSpec: the helper functions of parse/delimiters.rs called on    *)
(* their own, each call on arguments drawn from a bounded set.             *)
(***************************************************************************)
MaxBlocksInput == 5     \* bytes in the input of split_blocks

\* the variables of the other specifications
parseVars ==
    <<inner, line_number, ret, yielded, line, line_num, result, loop, threads, calls>>

BlockBytes == {";", ",", "x"}
Delimiters == {";", ","}

\* the texts given to parse_i64 and parse_i32: every short text, and the
\* numerals at and next to the bounds of i32 and i64, plain, signed and with
\* leading zeros
MaxNumeral == 3
NumeralBytes == {"-", "+", "0", "1", "9", "x"}
I32Over == <<"2","1","4","7","4","8","3","6","4","9">>
U32Over == <<"4","2","9","4","9","6","7","2","9","7">>
I64Over == <<"9","2","2","3","3","7","2","0","3","6","8","5","4","7","7","5","8","0","9">>
U64Over == <<"1","8","4","4","6","7","4","4","0","7","3","7","0","9","5","5","1","6","1","7">>
NumeralPrefixes == {<<>>, <<"-">>, <<"+">>, <<"0", "0">>, <<"-", "0">>}
Prefixed(mags) == {pre \o mag : pre \in NumeralPrefixes, mag \in mags}
SourceIdTexts == Prefixed({<<"7">>, I32MaxMag, I32MinMag, I32Over, U32Over})
DateTexts == Prefixed({<<"7">>, I32MinMag, I64MaxMag, I64MinMag, I64Over, U64Over})
NumeralTexts == BoundedSeqs(NumeralBytes, MaxNumeral) \cup SourceIdTexts \cup DateTexts

FunctionsInit ==
    /\ call = NoCall
    /\ composite = NoComposite
    /\ json = NoFormatter
    /\ threads = IdleThreads
    /\ calls = <<>>
    /\ inner = IdleStream
    /\ line_number = 0
    /\ ret = NotCalled
    /\ yielded = <<>>
    /\ line = <<>>
    /\ line_num = 0
    /\ result = NotCalled
    /\ loop = IdleLoop

\* split_blocks(input, delimiter)
CallSplitBlocks ==
    /\ call = NoCall
    /\ \E input \in BoundedSeqs(BlockBytes, MaxBlocksInput), delimiter \in Delimiters :
           call' = [fn |-> "split_blocks", input |-> input, delimiter |-> delimiter,
                    ret |-> split_blocks(input, delimiter)]
    /\ UNCHANGED <<parseVars, composite, json>>

\* parse_i64(s)
CallParseI64 ==
    /\ call = NoCall
    /\ \E s \in NumeralTexts :
           call' = [fn |-> "parse_i64", input |-> s, ret |-> parse_i64(s)]
    /\ UNCHANGED <<parseVars, composite, json>>

\* parse_i32(s)
CallParseI32 ==
    /\ call = NoCall
    /\ \E s \in NumeralTexts :
           call' = [fn |-> "parse_i32", input |-> s, ret |-> parse_i32(s)]
    /\ UNCHANGED <<parseVars, composite, json>>

\* parse_record on a line of five fields, the second a date text and the
\* third a source collection id text
CallParseRecordNumbers ==
    /\ call = NoCall
    /\ \E d \in DateTexts, s \in SourceIdTexts :
           call' = [fn |-> "parse_record", date |-> d, source |-> s,
                    ret |-> parse_record(<<"i", HT>> \o d \o <<HT>> \o s \o <<HT, HT>>, 1)]
    /\ UNCHANGED <<parseVars, composite, json>>

FunctionsNext ==
    \/ CallSplitBlocks
    \/ CallParseI64
    \/ CallParseI32
    \/ CallParseRecordNumbers

FunctionsSpec == FunctionsInit /\ [][FunctionsNext]_vars

(***************************************************************************)
(* FilterSpec: a CompositeFilter built by build_filters from the command   *)
(* line, extended with CompositeFilter::add, and asked about one record.   *)
(* Of the filter arguments the date range, the source and --has-quote are  *)
(* modelled; the others stay absent.                                       *)
(***************************************************************************)
MaxAdds == 2       \* calls of CompositeFilter::add after build_filters
MaxAsked == 2      \* calls of CompositeFilter::matches

Day0131 == <<"2", "0", "2", "5", "0", "1", "3", "1">>
Day0201 == <<"2", "0", "2", "5", "0", "2", "0", "1">>
Day0202 == <<"2", "0", "2", "5", "0", "2", "0", "2">>
Midnight == <<"0", "0", "0", "0", "0", "0">>
Noon == <<"1", "2", "0", "0", "0", "0">>
LastSecond == <<"2", "3", "5", "9", "5", "9">>

\* the dates of the records asked about: YYYYMMDDHHMMSS
RecordDates ==
    {Day0131 \o LastSecond, Day0201 \o Midnight, Day0201 \o Noon, Day0202 \o Midnight}

\* the records: a short line of source "s", and a full line of "x" fields
\* (it has a sharing image)
FilterRecords ==
    {parse_record(<<"x", HT>> \o d \o <<HT, "1", HT, "s", HT, "x">>, 1).record :
        d \in RecordDates}
    \cup {parse_record(MkLine(FullFields, 1, d), 1).record : d \in RecordDates}

\* None of an Option<String> and of an Option<i64>
NoneText == [some |-> FALSE, val |-> <<>>]
NoneI64 == [some |-> FALSE, val |-> I64Zero]

\* cli.rs: FilterArgs, the options that are modelled
FilterArgsSet ==
    [date_from : {NoneText, SomeOpt(Day0201), SomeOpt(Day0201 \o Midnight)},
     date_to : {NoneText, SomeOpt(Day0201), SomeOpt(Day0201 \o LastSecond)},
     source : {NoneText, SomeOpt(<<"S">>)},
     has_quote : BOOLEAN]

\* Option<String>::as_ref().and_then(|d| d.parse().ok())
ParseOk(opt) ==
    IF opt.some /\ FromStrI64(opt.val).ok THEN SomeOpt(FromStrI64(opt.val).val)
    ELSE NoneI64

\* main.rs: build_filters
build_filters(args) ==
    (IF args.date_from.some \/ args.date_to.some
     THEN <<[kind |-> "DateRange", from |-> ParseOk(args.date_from),
             to |-> ParseOk(args.date_to)]>>
     ELSE <<>>)
    \o (IF args.source.some THEN <<[kind |-> "Source", pattern |-> args.source.val]>>
        ELSE <<>>)
    \o (IF args.has_quote THEN <<[kind |-> "HasQuote"]>> ELSE <<>>)

\* the filters given to CompositeFilter::add
AddedFilters ==
    {[kind |-> "Source", pattern |-> <<"x">>], [kind |-> "HasImage"]}

FilterInit ==
    /\ composite = NoComposite
    /\ call = NoCall
    /\ json = NoFormatter
    /\ threads = IdleThreads
    /\ calls = <<>>
    /\ inner = IdleStream
    /\ line_number = 0
    /\ ret = NotCalled
    /\ yielded = <<>>
    /\ line = <<>>
    /\ line_num = 0
    /\ result = NotCalled
    /\ loop = IdleLoop

\* build_filters(&args.filter); `record` is the record the composite will be
\* asked about
BuildFilters ==
    /\ ~composite.made
    /\ \E args \in FilterArgsSet, record \in FilterRecords :
           composite' = [made |-> TRUE, args |-> args, filters |-> build_filters(args),
                         adds |-> 0, record |-> record, answers |-> <<>>]
    /\ UNCHANGED <<parseVars, call, json>>

\* CompositeFilter::add
AddFilter ==
    /\ composite.made
    /\ composite.adds < MaxAdds
    /\ \E f \in AddedFilters :
           composite' = [composite EXCEPT !.filters = Append(@, f), !.adds = @ + 1]
    /\ UNCHANGED <<parseVars, call, json>>

\* CompositeFilter::matches(&record); the answer is kept with the number of
\* filters the composite had
AskMatches ==
    /\ composite.made
    /\ Len(composite.answers) < MaxAsked
    /\ composite' = [composite EXCEPT !.answers =
                        Append(@, [n |-> Len(composite.filters),
                                   answer |-> CompositeMatches(composite.filters,
                                                               composite.record)])]
    /\ UNCHANGED <<parseVars, call, json>>

FilterNext == BuildFilters \/ AddFilter \/ AskMatches

FilterSpec == FilterInit /\ [][FilterNext]_vars

(***************************************************************************)
(* JsonSpec: a JsonFormatter over a writer that may report an error on any *)
(* write.  The formatter does not order its calls, so begin, write_record, *)
(* write_scored_record and finish are called in every order.  The bytes    *)
(* written are kept as a sequence of pieces: <<"[">>, <<",">>, <<"]">>,    *)
(* the line break <<"\n">> and, for the text serde_json gives for a record,   *)
(* <<kind, id, layout, selection>>.  A failed write is taken to write      *)
(* nothing.  `log` is the history of the calls with their results.         *)
(***************************************************************************)
MaxJsonCalls == 4
MaxWriterErrors == 1

WrittenIds == {"a", "b"}
LineBreak == <<"\n">>

\* serde_json::to_string / to_string_pretty of the record or of its projection
ToJson(kind, id, pretty, selected) ==
    <<kind, id, IF pretty THEN "pretty" ELSE "compact",
      IF selected THEN "projected" ELSE "whole">>

\* JsonFormatter::new(writer, pretty, fields)
JsonFormatter_new(pretty, fields) ==
    [made |-> TRUE, pretty |-> pretty, fields |-> fields, first |-> TRUE,
     out |-> <<>>, flushed |-> FALSE, log |-> <<>>, errors |-> 0]

\* the call and its result, as the caller saw them
Logged(fmt, fn, id, ok) ==
    [fmt EXCEPT !.log = Append(@, [fn |-> fn, id |-> id, ok |-> ok]),
                !.errors = IF ok THEN @ ELSE @ + 1]

\* writeln!(self.writer, "[")?
begin(fmt, fail) ==
    IF fail = "open"
    THEN Logged(fmt, "begin", "", FALSE)
    ELSE Logged([fmt EXCEPT !.out = @ \o << <<"[">>, LineBreak >>], "begin", "", TRUE)

\* the body shared by write_record and write_scored_record: the separator
\* unless this is the first record, `first` cleared, then the text
WriteJson(fmt, fn, id, json_str, comma, fail) ==
    IF comma /\ fail = "separator"
    THEN Logged(fmt, fn, id, FALSE)
    ELSE LET separated == [fmt EXCEPT !.out = IF comma THEN @ \o << <<",">>, LineBreak >> ELSE @,
                                      !.first = FALSE]
         IN  IF fail = "record"
             THEN Logged(separated, fn, id, FALSE)
             ELSE Logged([separated EXCEPT !.out = Append(@, json_str)], fn, id, TRUE)

write_record_AlwaysComma(fmt, id, fail) ==
    WriteJson(fmt, "write_record", id, ToJson("record", id, fmt.pretty, fmt.fields),
              TRUE, fail)

write_record(fmt, id, fail) ==
    WriteJson(fmt, "write_record", id, ToJson("record", id, fmt.pretty, fmt.fields),
              ~fmt.first, fail)

write_scored_record(fmt, id, fail) ==
    WriteJson(fmt, "write_scored_record", id, ToJson("scored", id, fmt.pretty, FALSE),
              ~fmt.first, fail)

\* writeln!(self.writer, "\n]")?; self.writer.flush()?
finish(fmt, fail) ==
    IF fail = "close"
    THEN Logged(fmt, "finish", "", FALSE)
    ELSE LET closed == [fmt EXCEPT !.out = @ \o << LineBreak, <<"]">>, LineBreak >>]
         IN  IF fail = "flush"
             THEN Logged(closed, "finish", "", FALSE)
             ELSE Logged([closed EXCEPT !.flushed = TRUE], "finish", "", TRUE)

\* the writer may fail the call at `stage`
MayFail(stage) ==
    stage # "none" => json.errors < MaxWriterErrors

JsonReady ==
    /\ json.made
    /\ Len(json.log) < MaxJsonCalls

JsonInit ==
    /\ json = NoFormatter
    /\ composite = NoComposite
    /\ call = NoCall
    /\ threads = IdleThreads
    /\ calls = <<>>
    /\ inner = IdleStream
    /\ line_number = 0
    /\ ret = NotCalled
    /\ yielded = <<>>
    /\ line = <<>>
    /\ line_num = 0
    /\ result = NotCalled
    /\ loop = IdleLoop

JsonNew ==
    /\ json = NoFormatter
    /\ \E pretty \in BOOLEAN, fields \in BOOLEAN :
           json' = JsonFormatter_new(pretty, fields)
    /\ UNCHANGED <<parseVars, call, composite>>

JsonBegin ==
    /\ JsonReady
    /\ \E fail \in {"none", "open"} :
           /\ MayFail(fail)
           /\ json' = begin(json, fail)
    /\ UNCHANGED <<parseVars, call, composite>>

JsonWriteRecord ==
    /\ JsonReady
    /\ \E id \in WrittenIds, fail \in {"none", "separator", "record"} :
           /\ MayFail(fail)
           /\ fail = "separator" => ~json.first
           /\ json' = write_record(json, id, fail)
    /\ UNCHANGED <<parseVars, call, composite>>

JsonWriteScoredRecord ==
    /\ JsonReady
    /\ \E id \in WrittenIds, fail \in {"none", "separator", "record"} :
           /\ MayFail(fail)
           /\ fail = "separator" => ~json.first
           /\ json' = write_scored_record(json, id, fail)
    /\ UNCHANGED <<parseVars, call, composite>>

JsonFinish ==
    /\ JsonReady
    /\ \E fail \in {"none", "close", "flush"} :
           /\ MayFail(fail)
           /\ json' = finish(json, fail)
    /\ UNCHANGED <<parseVars, call, composite>>

JsonNext ==
    \/ JsonNew
    \/ JsonBegin
    \/ JsonWriteRecord
    \/ JsonWriteScoredRecord
    \/ JsonFinish

JsonSpec == JsonInit /\ [][JsonNext]_vars

(***************************************************************************)
(* Claims about the JSON output (checked under JsonSpec)                   *)
(***************************************************************************)
\* the calls were begin, then only writes, then finish, and all succeeded
BeginWritesFinish ==
    /\ json.made
    /\ Len(json.log) >= 2
    /\ \A k \in 1..Len(json.log) : json.log[k].ok
    /\ json.log[1].fn = "begin"
    /\ json.log[Len(json.log)].fn = "finish"
    /\ \A k \in 2..(Len(json.log) - 1) :
           json.log[k].fn \in {"write_record", "write_scored_record"}

\* the output without its line breaks
Pieces == SelectSeq(json.out, LAMBDA p : p # LineBreak)

\* the text of the k-th record written
RecordText(k) ==
    LET w == json.log[k + 1]
    IN  IF w.fn = "write_record"
        THEN ToJson("record", w.id, json.pretty, json.fields)
        ELSE ToJson("scored", w.id, json.pretty, FALSE)

\* C29: after begin, n >= 0 successful write_record / write_scored_record
\* calls and finish on a JsonFormatter, the output is "[", the n records
\* with exactly one "," between each consecutive pair (none before the
\* first record, none after the last) and "]".
C29_JsonArray ==
    BeginWritesFinish =>
        LET n == Len(json.log) - 2
        IN  /\ Len(Pieces) = IF n = 0 THEN 2 ELSE 2 * n + 1
            /\ Pieces[1] = <<"[">>
            /\ Pieces[Len(Pieces)] = <<"]">>
            /\ \A k \in 1..n : Pieces[2 * k] = RecordText(k)
            /\ \A k \in 1..(n - 1) : Pieces[2 * k + 1] = <<",">>

\* begin, a record, a scored record and finish, all successful
C29_Witness ==
    /\ BeginWritesFinish
    /\ Len(json.log) = 4
    /\ json.log[2].fn = "write_record"
    /\ json.log[3].fn = "write_scored_record"
    /\ json.out = << <<"[">>, LineBreak, RecordText(1), <<",">>, LineBreak, RecordText(2),
                     LineBreak, <<"]">>, LineBreak >>

(***************************************************************************)
(* Claims about the filters (checked under FilterSpec)                     *)
(***************************************************************************)
\* C24: CompositeFilter.matches(record) is true exactly when every filter
\* added so far matches the record: a composite without filters matches
\* every record, and adding a filter never turns a record that did not
\* match into one that does.
C24_CompositeIsConjunction ==
    composite.made =>
        /\ \A k \in 1..Len(composite.answers) :
              LET a == composite.answers[k]
              IN  /\ a.answer <=> \A i \in 1..a.n :
                                      FilterMatches(composite.filters[i], composite.record)
                  /\ a.n = 0 => a.answer
        /\ \A k, m \in 1..Len(composite.answers) :
              (k < m /\ ~composite.answers[k].answer) => ~composite.answers[m].answer

\* a record matched a composite of one filter and, a filter added, no longer
\* matched
C24_Witness ==
    /\ composite.made
    /\ Len(composite.answers) = 2
    /\ composite.answers[1].n = 1 /\ composite.answers[1].answer
    /\ composite.answers[2].n = 2 /\ ~composite.answers[2].answer

\* C26: when --date-from or --date-to is given as an 8-digit YYYYMMDD value,
\* the date range filter passes exactly the records whose 14-digit date
\* falls on or after (on or before) that day.
C26_Original ==
    (/\ composite.made
     /\ composite.args.date_from.some \/ composite.args.date_to.some
     /\ composite.args.date_from.some => Len(composite.args.date_from.val) = 8
     /\ composite.args.date_to.some => Len(composite.args.date_to.val) = 8) =>
        LET day == SubSeq(composite.record.date.mag, 1, 8)
            onOrAfter == composite.args.date_from.some =>
                             MagLE(composite.args.date_from.val, day)
            onOrBefore == composite.args.date_to.some =>
                              MagLE(day, composite.args.date_to.val)
        IN  \A k \in 1..Len(composite.answers) :
                composite.answers[k].n = 1 =>
                    (composite.answers[k].answer <=> (onOrAfter /\ onOrBefore))

\* with --date-to 20250201 alone, the record dated 20250201120000 did not
\* pass
C26_Witness ==
    /\ composite.made
    /\ composite.args.date_to = SomeOpt(Day0201)
    /\ ~composite.args.date_from.some
    /\ composite.filters = <<[kind |-> "DateRange", from |-> NoneI64,
                              to |-> SomeOpt([neg |-> FALSE, mag |-> Day0201])]>>
    /\ composite.record.date = [neg |-> FALSE, mag |-> Day0201 \o Noon]
    /\ composite.answers # <<>>
    /\ ~composite.answers[1].answer

(***************************************************************************)
(* Claims about the helper functions (checked under FunctionsSpec)         *)
(***************************************************************************)
\* the maximal non-empty runs of `input` without the byte d, as <<first,
\* last>> positions
MaximalRuns(input, d) ==
    {r \in (1..Len(input)) \X (1..Len(input)) :
        /\ r[1] <= r[2]
        /\ \A i \in r[1]..r[2] : input[i] # d
        /\ r[1] = 1 \/ input[r[1] - 1] = d
        /\ r[2] = Len(input) \/ input[r[2] + 1] = d}

\* C23: split_blocks(input, d) returns, in order, exactly the maximal
\* non-empty substrings of input without d: no entry is empty or holds d,
\* the empty input gives the empty list, and leading, consecutive or
\* trailing delimiters add no entry.
C23_SplitBlocksMaximalRuns ==
    call.fn = "split_blocks" =>
        LET runs == MaximalRuns(call.input, call.delimiter)
        IN  /\ Len(call.ret) = Cardinality(runs)
            /\ \A r \in runs :
                  call.ret[1 + Cardinality({q \in runs : q[1] < r[1]})] =
                      SubSeq(call.input, r[1], r[2])
            /\ \A i \in 1..Len(call.ret) :
                  /\ call.ret[i] # <<>>
                  /\ \A k \in 1..Len(call.ret[i]) : call.ret[i][k] # call.delimiter
            /\ call.input = <<>> => call.ret = <<>>

\* ";x;;," split on ';' gave the two entries "x" and ",": the leading and
\* the doubled delimiter added nothing
C23_Witness ==
    /\ call.fn = "split_blocks"
    /\ call.input = <<";", "x", ";", ";", ",">>
    /\ call.delimiter = ";"
    /\ call.ret = << <<"x">>, <<",">> >>

\* a decimal numeral: an optional sign and one digit or more
IsNumeral(s) ==
    LET from == IF s # <<>> /\ s[1] \in {"+", "-"} THEN 2 ELSE 1
    IN  /\ Len(s) >= from
        /\ \A i \in from..Len(s) : s[i] \in Digits

IsNegative(s) == s # <<>> /\ s[1] = "-"

\* the digits of the numeral s from its first digit other than 0
Significant(s) ==
    LET idx == {i \in 1..Len(s) : s[i] \in Digits \ {"0"}}
    IN  IF idx = {} THEN <<>>
        ELSE SubSeq(s, CHOOSE i \in idx : \A j \in idx : i <= j, Len(s))

\* the number written by at most nine digits
RECURSIVE NatOf(_)
NatOf(ds) ==
    IF ds = <<>> THEN 0
    ELSE 10 * NatOf(SubSeq(ds, 1, Len(ds) - 1)) + DigitVal(ds[Len(ds)])

\* the numeral s is within -2147483648 .. 2147483647
WithinI32(s) ==
    LET sig == Significant(s)
        high == NatOf(SubSeq(sig, 1, 9))
    IN  \/ Len(sig) < 10
        \/ /\ Len(sig) = 10
           /\ \/ high < 214748364
              \/ high = 214748364 /\ DigitVal(sig[10]) <= (IF IsNegative(s) THEN 8 ELSE 7)

\* the value of a numeral within the range of i32
ValueI32(s) ==
    LET sig == Significant(s)
        sgn == IF IsNegative(s) THEN -1 ELSE 1
    IN  IF sig = <<>> THEN 0
        ELSE sgn * NatOf(SubSeq(sig, 1, Len(sig) - 1)) * 10 + sgn * DigitVal(sig[Len(sig)])

\* the numeral s is within -9223372036854775808 .. 9223372036854775807
WithinI64(s) ==
    LET sig == Significant(s)
        a == NatOf(SubSeq(sig, 1, 7))
        b == NatOf(SubSeq(sig, 8, 13))
        c == NatOf(SubSeq(sig, 14, 19))
    IN  \/ Len(sig) < 19
        \/ /\ Len(sig) = 19
           /\ \/ a < 9223372
              \/ a = 9223372 /\ b < 36854
              \/ a = 9223372 /\ b = 36854 /\ c <= (IF IsNegative(s) THEN 775808 ELSE 775807)

\* the value of a numeral within the range of i64, as sign and digits
ValueI64(s) ==
    [neg |-> IsNegative(s) /\ Significant(s) # <<>>, mag |-> Significant(s)]

\* C30: parse_i32 and parse_i64, and the parse of the date and of the source
\* collection id in parse_record, return the exact value of every decimal
\* numeral within the signed 32-bit (64-bit) range and 0, never a wrapped or
\* saturated value, for a numeral outside that range.
C30_ExactOrZero ==
    /\ call.fn = "parse_i32" /\ IsNumeral(call.input) =>
           call.ret = IF WithinI32(call.input) THEN ValueI32(call.input) ELSE 0
    /\ call.fn = "parse_i64" /\ IsNumeral(call.input) =>
           call.ret = IF WithinI64(call.input) THEN ValueI64(call.input) ELSE I64Zero
    /\ call.fn = "parse_record" =>
           /\ call.ret.tag = "Ok"
           /\ call.ret.record.date =
                  IF WithinI64(call.date) THEN ValueI64(call.date) ELSE I64Zero
           /\ call.ret.record.source_collection_id =
                  IF WithinI32(call.source) THEN ValueI32(call.source) ELSE 0

\* parse_record on the date 9223372036854775808 and the source collection
\* id -2147483649, each one past its bound: both fields are 0
C30_Witness ==
    /\ call.fn = "parse_record"
    /\ call.date = I64MinMag
    /\ call.source = <<"-">> \o I32Over
    /\ call.ret.tag = "Ok"
    /\ call.ret.record.date = I64Zero
    /\ call.ret.record.source_collection_id = 0

Rejected(item) ==
    item.tag = "Ok" /\ parse_record(item.text, item.num).tag = "Err"

NotRejected(item) == ~Rejected(item)

\* the loop state at the entry of the loop
AtLoopEntry ==
    [loop EXCEPT !.pc = "loop", !.count = 0, !.skipped = 0, !.errors = 0,
                 !.warned = <<>>, !.records = <<>>, !.outcome = Running,
                 !.fmt = IF loop.prog = "run_pipeline"
                         THEN [calls |-> 1, fail_at |-> loop.fmt.fail_at,
                               out |-> << <<"begin">> >>, made |-> <<"begin">>]
                         ELSE loop.fmt]

\* the loop state after the turns that handle `items`, from state lp
RECURSIVE Handled(_, _)
Handled(lp, items) ==
    IF items = <<>> \/ lp.pc # "loop" THEN lp
    ELSE Handled(LoopBody(lp, items[1]), Tail(items))

ErrorsApart(lp) == [lp EXCEPT !.errors = 0, !.warned = <<>>]

\* C9: in both read loops a line that parse_record rejects is skipped and
\* counted as one error, and the loop goes on: while the loop runs and at
\* its end, apart from the error count and the warnings, the loop is in the
\* state it would be in had the rejected lines not been in the input.
C9_RejectedLineSkipped ==
    (yielded # <<>> /\ loop.pc \in {"loop", "finish", "parsed"}) =>
        LET rejected == SelectSeq(yielded, Rejected)
            others == SelectSeq(yielded, NotRejected)
        IN  /\ loop.errors = Len(rejected)
            /\ loop.warned = [i \in 1..Len(rejected) |-> rejected[i].num]
            /\ ErrorsApart(loop) = ErrorsApart(Handled(AtLoopEntry, others))

\* run_pipeline wrote a record of a line that came after a rejected line
C9_Witness ==
    /\ loop.prog = "run_pipeline"
    /\ loop.errors = 1
    /\ loop.count = 1
    /\ \E i \in 1..Len(yielded) : \E j \in (i + 1)..Len(yielded) :
          /\ Rejected(yielded[i])
          /\ yielded[j].tag = "Ok" /\ ~Rejected(yielded[j])
          /\ loop.fmt.out[Len(loop.fmt.out)] =
                <<"record", parse_record(yielded[j].text, yielded[j].num).record>>

RecordsWritten ==
    Cardinality({i \in 1..Len(loop.fmt.out) : loop.fmt.out[i][1] = "record"})

\* C10: when the reader yields an I/O error run_pipeline returns that error
\* at once: the failed read is the last read of the stream, and no record
\* is written (nor the output finished) after it.
C10_ReadErrorReturned ==
    /\ [](loop.prog = "run_pipeline" =>
            \A i \in 1..Len(yielded) :
                yielded[i].tag = "Err" =>
                    /\ i = Len(yielded)
                    /\ inner.pos = yielded[i].upto
                    /\ loop.pc = "done"
                    /\ loop.outcome = [tag |-> "Err", kind |-> "Io",
                                       error |-> yielded[i].error]
                    /\ RecordsWritten = loop.count
                    /\ loop.fmt.calls = 1 + loop.count)
    /\ [][(loop.prog = "run_pipeline" /\ ret'.tag = "Err") =>
             (loop'.fmt = loop.fmt /\ loop'.count = loop.count)]_vars

\* run_pipeline returned the error of a failed read after it had written a
\* record, with input left unread
C10_Witness ==
    /\ loop.prog = "run_pipeline"
    /\ loop.outcome = [tag |-> "Err", kind |-> "Io", error |-> "Other"]
    /\ yielded # <<>> /\ yielded[Len(yielded)].tag = "Err"
    /\ loop.count >= 1
    /\ inner.pos < Len(inner.data)

\* C25: with a limit given, run_pipeline never writes more than `limit`
\* records to the formatter, for every limit including 0, and it reads no
\* more input once `limit` records are written.
C25_Original ==
    (loop.prog = "run_pipeline" /\ loop.limit.some) =>
        /\ RecordsWritten <= loop.limit.val
        /\ RecordsWritten >= loop.limit.val => loop.pc # "loop"

\* with limit 0 run_pipeline wrote a record and went on to finish
C25_Witness ==
    /\ loop.prog = "run_pipeline"
    /\ loop.limit = SomeOpt(0)
    /\ RecordsWritten = 1
    /\ loop.count = 1
    /\ loop.pc = "finish"

\* the items read so far whose line parses into a record the filters match
Candidate(item) ==
    /\ item.tag = "Ok"
    /\ parse_record(item.text, item.num).tag = "Ok"
    /\ CompositeMatches(loop.filters, parse_record(item.text, item.num).record)

\* the records written to the formatter, in the order of the writes
WrittenRecords ==
    LET writes == SelectSeq(loop.fmt.out, LAMBDA w : w[1] = "record")
    IN  [i \in 1..Len(writes) |-> writes[i][2]]

\* the records of the candidates read so far, without the first `offset`
AfterOffset ==
    LET cands == SelectSeq(yielded, Candidate)
        skip_n == IF loop.offset.some THEN loop.offset.val ELSE 0
    IN  [i \in 1..(IF Len(cands) > skip_n THEN Len(cands) - skip_n ELSE 0) |->
            parse_record(cands[i + skip_n].text, cands[i + skip_n].num).record]

\* C27: run_pipeline writes, in input order, exactly the records that parse
\* and match the filters, leaving out the first `offset` of them and
\* stopping at the limit; lines that fail to parse and records that do not
\* match never count toward the offset.
C27_Original ==
    (loop.prog = "run_pipeline" /\ loop.pc \in {"loop", "finish"}) =>
        /\ WrittenRecords =
               IF loop.limit.some /\ loop.limit.val < Len(AfterOffset)
               THEN SubSeq(AfterOffset, 1, loop.limit.val)
               ELSE AfterOffset
        /\ loop.skipped = Len(SelectSeq(yielded, Candidate)) - Len(AfterOffset)

\* C27, the part that holds for every limit: what is written is, in input
\* order, exactly the candidates read so far without the first `offset`.
C27_OffsetSkipsCandidates ==
    (loop.prog = "run_pipeline" /\ loop.pc \in {"loop", "finish"}) =>
        /\ WrittenRecords = AfterOffset
        /\ loop.skipped = Len(SelectSeq(yielded, Candidate)) - Len(AfterOffset)

\* with offset 1 and limit 0, the second matching record was written, after
\* a line that did not parse
C27_Witness ==
    /\ loop.prog = "run_pipeline"
    /\ loop.pc = "finish"
    /\ loop.offset = SomeOpt(1) /\ loop.limit = SomeOpt(0)
    /\ loop.errors = 1
    /\ loop.skipped = 1
    /\ Len(WrittenRecords) = 1

\* the calls named `what` among the calls made on the formatter
CallsMade(what) == {i \in 1..Len(loop.fmt.made) : loop.fmt.made[i] = what}

\* C28: in run_pipeline formatter.begin() is called exactly once, before any
\* write_record, and formatter.finish() is called exactly once, after the
\* last write, on every path by which run_pipeline returns, the paths on
\* which the reader or a write reports an error included.
C28_Original ==
    loop.prog = "run_pipeline" =>
        /\ loop.fmt.made # <<>> => (loop.fmt.made[1] = "begin" /\ CallsMade("begin") = {1})
        /\ Cardinality(CallsMade("finish")) <= 1
        /\ \A i \in CallsMade("finish") : i = Len(loop.fmt.made)
        /\ loop.pc = "done" => Cardinality(CallsMade("finish")) = 1

\* run_pipeline returned the error of a failed read after begin and one
\* write_record, without a call of finish
C28_Witness ==
    /\ loop.prog = "run_pipeline"
    /\ loop.pc = "done"
    /\ loop.outcome.tag = "Err"
    /\ yielded # <<>> /\ yielded[Len(yielded)].tag = "Err"
    /\ loop.fmt.made = <<"begin", "record">>

(***************************************************************************)
(* Claims about parse_record (checked under ParseSpec)                     *)
(***************************************************************************)
Called == result.tag # "NotCalled"

\* the number of tab fields of the line, and its field i (empty when absent)
NumFields == 1 + Cardinality({i \in 1..Len(line) : line[i] = HT})
RawField(i) == IF i < Len(Split(line, HT)) THEN Split(line, HT)[i + 1] ELSE <<>>

\* field i of the tab fields fs (empty when absent)
FieldAt(fs, i) == IF i < Len(fs) THEN fs[i + 1] ELSE <<>>

\* C1: parse_record returns a Parse error exactly when the line has fewer
\* than 5 tab fields; the error carries the line number given and a message
\* that names the number of fields received; 5 or more fields give Ok.
C1_FewFieldsRejected ==
    Called =>
        /\ (result.tag = "Err") <=> (NumFields < 5)
        /\ (NumFields >= 5) => result.tag = "Ok"
        /\ result.tag = "Err" =>
              /\ result.kind = "Parse"
              /\ result.line = line_num
              /\ result.message[1] = "Expected at least 5 tab-delimited fields, got "
              /\ AllDigits(result.message[2])
              /\ MagToInt(result.message[2], FALSE, 0) = NumFields

\* a line of exactly 4 fields was rejected
C1_Witness == result.tag = "Err" /\ NumFields = 4

\* C2: for every line and line number parse_record returns Ok or a Parse
\* error; no sub-parser panics on an index or a string slice.
C2_NoPanic ==
    Called =>
        /\ result.tag \in {"Ok", "Err"}
        /\ result.tag = "Err" => result.kind = "Parse"

\* an enhanced person whose name ends in a two-byte character was sliced
\* off at the comma, next to a block that is a lone comma
C2_Witness ==
    /\ result.tag = "Ok"
    /\ \E i \in 1..Len(result.record.v2_enhanced_persons) :
          LET nm == result.record.v2_enhanced_persons[i].name
          IN  nm[Len(nm)] = "A9"

\* the index of the raw field behind each field of the record
FieldIndexOf ==
    [gkg_record_id |-> 0, date |-> 1, source_collection_id |-> 2,
     source_common_name |-> 3, document_identifier |-> 4,
     v1_counts |-> 5, v21_counts |-> 6, v1_themes |-> 7, v2_enhanced_themes |-> 8,
     v1_locations |-> 9, v2_enhanced_locations |-> 10, v1_persons |-> 11,
     v2_enhanced_persons |-> 12, v1_organizations |-> 13,
     v2_enhanced_organizations |-> 14, tone |-> 15, v21_enhanced_dates |-> 16,
     gcam |-> 17, sharing_image |-> 18, related_images |-> 19,
     social_image_embeds |-> 20, social_video_embeds |-> 21, quotations |-> 22,
     all_names |-> 23, amounts |-> 24, translation_info |-> 25, extras_xml |-> 26]

OptionalFields == {"tone", "sharing_image", "translation_info", "extras_xml"}

EmptyValueOf(f) ==
    IF f \in OptionalFields THEN [some |-> FALSE, val |-> <<>>] ELSE <<>>

\* the line with empty fields added up to 27
PaddedLine == line \o [i \in 1..(27 - NumFields) |-> HT]

\* C3: a line of k fields, 5 <= k < 27, gives the record of the same line
\* padded with empty fields up to 27, every field at an index >= k taking
\* its empty value (empty list; None for tone, sharing image, translation
\* info and extra XML).
C3_MissingFieldsEmpty ==
    (Called /\ 5 <= NumFields /\ NumFields < 27) =>
        /\ result.tag = "Ok"
        /\ result = parse_record(PaddedLine, line_num)
        /\ \A f \in DOMAIN FieldIndexOf :
              FieldIndexOf[f] >= NumFields => result.record[f] = EmptyValueOf(f)

\* a line of 16 fields gave a record with a tone and without dates or GCAM
C3_Witness ==
    /\ result.tag = "Ok"
    /\ NumFields = 16
    /\ result.record.tone.some
    /\ result.record.v21_enhanced_dates = <<>>
    /\ result.record.extras_xml = [some |-> FALSE, val |-> <<>>]

\* a text that no numeric parse accepts
Unparsable(s) == s = <<>> \/ s = <<"-">> \/ \E i \in 1..Len(s) : s[i] = "x"

\* sub-field i of a block, when the block has it and it is no number, gave z
NumZ(parts, i, v, z) == (i < Len(parts) /\ Unparsable(parts[i + 1])) => v = z

LastComma(b) ==
    IF \E i \in 1..Len(b) : b[i] = ","
    THEN CHOOSE i \in 1..Len(b) : b[i] = "," /\ \A j \in (i + 1)..Len(b) : b[j] # ","
    ELSE 0

Occurrences(b, c) == Cardinality({i \in 1..Len(b) : b[i] = c})

\* the blocks of each grammar that have the structure of an element
KeepsAlways(b) == TRUE
KeepsCount(b) == Occurrences(b, "#") >= 1
KeepsEntity(b) == LastComma(b) > 1
KeepsQuotation(b) == Occurrences(b, "|") >= 3

\* the numeric sub-fields of each grammar
ZerosCount(b, e) ==
    LET parts == Split(b, "#")
    IN  /\ NumZ(parts, 1, e.count, I64Zero)
        /\ NumZ(parts, 3, e.location.location_type, 0)
        /\ NumZ(parts, 7, e.location.latitude, F64Zero)
        /\ NumZ(parts, 8, e.location.longitude, F64Zero)

ZerosCountV21(b, e) ==
    ZerosCount(b, e) /\ NumZ(Split(b, "#"), 10, e.char_offset, I64Zero)

ZerosEnhancedTheme(b, e) == NumZ(SplitN(b, 2, ","), 1, e.char_offset, I64Zero)

ZerosLocationV1(b, e) ==
    LET parts == Split(b, "#")
    IN  /\ NumZ(parts, 0, e.location_type, 0)
        /\ NumZ(parts, 4, e.latitude, F64Zero)
        /\ NumZ(parts, 5, e.longitude, F64Zero)

ZerosEnhancedLocation(b, e) ==
    LET parts == Split(b, "#")
    IN  /\ NumZ(parts, 0, e.location_type, 0)
        /\ NumZ(parts, 5, e.latitude, F64Zero)
        /\ NumZ(parts, 6, e.longitude, F64Zero)
        /\ NumZ(parts, 8, e.char_offset, I64Zero)

ZerosEntity(b, e) ==
    Unparsable(SubSeq(b, LastComma(b) + 1, Len(b))) => e.char_offset = I64Zero

ZerosDate(b, e) ==
    LET parts == Split(b, ",")
    IN  /\ NumZ(parts, 0, e.resolution, 0)
        /\ NumZ(parts, 1, e.month, 0)
        /\ NumZ(parts, 2, e.day, 0)
        /\ NumZ(parts, 3, e.year, 0)
        /\ NumZ(parts, 4, e.char_offset, I64Zero)

ZerosGcam(b, e) == NumZ(SplitN(b, 2, ":"), 1, e.value, F64Zero)

ZerosQuotation(b, e) ==
    LET parts == Split(b, "|")
    IN  NumZ(parts, 0, e.offset, I64Zero) /\ NumZ(parts, 1, e.length, I64Zero)

ZerosAmount(b, e) ==
    LET parts == SplitN(b, 3, ",")
    IN  NumZ(parts, 0, e.amount, F64Zero) /\ NumZ(parts, 2, e.char_offset, I64Zero)

ZerosTone(b, e) ==
    LET parts == Split(b, ",")
    IN  /\ NumZ(parts, 0, e.tone, F64Zero)
        /\ NumZ(parts, 1, e.positive_score, F64Zero)
        /\ NumZ(parts, 2, e.negative_score, F64Zero)
        /\ NumZ(parts, 3, e.polarity, F64Zero)
        /\ NumZ(parts, 4, e.activity_ref_density, F64Zero)
        /\ NumZ(parts, 5, e.self_group_ref_density, F64Zero)
        /\ NumZ(parts, 6, e.word_count, I64Zero)

\* every block with the structure of an element gave one element, in order,
\* and its numeric sub-fields that are no numbers are zero
BlocksEmitted(text, outer, Keeps(_), Zeros(_, _), out) ==
    LET kept == SelectSeq(NonEmptyOnly(Split(text, outer)), Keeps)
    IN  /\ Len(out) = Len(kept)
        /\ \A i \in 1..Len(kept) : Zeros(kept[i], out[i])

\* C4: a numeric text that cannot be parsed never aborts the record: a date
\* or source collection id that is no number is 0 in an Ok record, and in
\* every sub-parser a numeric sub-field that fails to parse is 0 (0.0) while
\* its block is still emitted.
C4_UnparsableIsZero ==
    Called =>
        /\ NumFields >= 5 => result.tag = "Ok"
        /\ result.tag = "Ok" =>
              LET r == result.record
                  fs == Split(line, HT)
              IN  /\ Unparsable(FieldAt(fs, 1)) => r.date = I64Zero
                  /\ Unparsable(FieldAt(fs, 2)) => r.source_collection_id = 0
                  /\ BlocksEmitted(FieldAt(fs, 5), ";", KeepsCount, ZerosCount, r.v1_counts)
                  /\ BlocksEmitted(FieldAt(fs, 6), ";", KeepsCount, ZerosCountV21, r.v21_counts)
                  /\ BlocksEmitted(FieldAt(fs, 8), ";", KeepsAlways, ZerosEnhancedTheme,
                                   r.v2_enhanced_themes)
                  /\ BlocksEmitted(FieldAt(fs, 9), ";", KeepsAlways, ZerosLocationV1,
                                   r.v1_locations)
                  /\ BlocksEmitted(FieldAt(fs, 10), ";", KeepsAlways, ZerosEnhancedLocation,
                                   r.v2_enhanced_locations)
                  /\ BlocksEmitted(FieldAt(fs, 12), ";", KeepsEntity, ZerosEntity,
                                   r.v2_enhanced_persons)
                  /\ BlocksEmitted(FieldAt(fs, 14), ";", KeepsEntity, ZerosEntity,
                                   r.v2_enhanced_organizations)
                  /\ FieldAt(fs, 15) # <<>> =>
                        r.tone.some /\ ZerosTone(FieldAt(fs, 15), r.tone.val)
                  /\ BlocksEmitted(FieldAt(fs, 16), ";", KeepsAlways, ZerosDate,
                                   r.v21_enhanced_dates)
                  /\ BlocksEmitted(FieldAt(fs, 17), ",", KeepsAlways, ZerosGcam, r.gcam)
                  /\ BlocksEmitted(FieldAt(fs, 22), "#", KeepsQuotation, ZerosQuotation,
                                   r.quotations)
                  /\ BlocksEmitted(FieldAt(fs, 23), ";", KeepsEntity, ZerosEntity, r.all_names)
                  /\ BlocksEmitted(FieldAt(fs, 24), ";", KeepsAlways, ZerosAmount, r.amounts)

\* a record whose date is no number kept a quotation whose offset is no
\* number, with offset 0
C4_Witness ==
    /\ result.tag = "Ok"
    /\ RawField(1) = <<"x">>
    /\ result.record.date = I64Zero
    /\ RawField(22) = <<"x", "|", "|", "|">>
    /\ Len(result.record.quotations) = 1
    /\ result.record.quotations[1].offset = I64Zero

\* the line with its raw field 0 (the record id) replaced by t
ReplaceRecordId(ln, t) ==
    IF \E i \in 1..Len(ln) : ln[i] = HT
    THEN t \o SubSeq(ln, CHOOSE i \in 1..Len(ln) :
                             ln[i] = HT /\ \A k \in 1..(i - 1) : ln[k] # HT,
                     Len(ln))
    ELSE t

RecordIds == {<<>>, <<"x">>, <<"y">>, <<";">>}

\* C11: the rejection of a line of fewer than 5 fields carries the record
\* id of the line (raw field 0) together with its line number: the same line
\* under another record id gives another rejection.
C11_Original ==
    (Called /\ result.tag = "Err") =>
        /\ result.line = line_num
        /\ \A t \in RecordIds \ {FieldAt(Split(line, HT), 0)} :
              parse_record(ReplaceRecordId(line, t), line_num) # result

\* C11 as amended: the rejection is the line number and a message that
\* names the number of fields, and nothing else: it is the same whatever
\* the record id of the line.
C11_RejectionWithoutRecordId ==
    (Called /\ result.tag = "Err") =>
        /\ DOMAIN result = {"tag", "kind", "line", "message"}
        /\ result.line = line_num
        /\ Len(result.message) = 2
        /\ \A t \in RecordIds :
              parse_record(ReplaceRecordId(line, t), line_num) = result

\* a line of 4 fields whose record id is not empty was rejected
C11_Witness ==
    /\ result.tag = "Err"
    /\ NumFields = 4
    /\ RawField(0) = <<";">>

\* the tab fields fs with fields 11 and 13, and fields 12 and 14, exchanged
SwapEntityFields(fs) ==
    [i \in 1..Len(fs) |->
        fs[CASE i = 12 -> 14 [] i = 14 -> 12 [] i = 13 -> 15 [] i = 15 -> 13
             [] OTHER -> i]]

\* C14: every output field of a record is computed from the raw field at its
\* own position only: against the line of as many fields that are all "x",
\* every output field whose raw field is unchanged is unchanged; and raw
\* fields 11 and 13 go through one plain-list grammar, raw fields 12 and 14
\* through one enhanced-entity grammar: exchanging the raw texts exchanges
\* the outputs.
C14_FieldsIndependent ==
    (Called /\ result.tag = "Ok") =>
        LET fs == Split(line, HT)
            xs == [i \in 1..Len(fs) |-> <<"x">>]
            base == ParseSplit(xs, line_num)
        IN  /\ base.tag = "Ok"
            /\ \A f \in DOMAIN FieldIndexOf :
                  FieldAt(fs, FieldIndexOf[f]) = FieldAt(xs, FieldIndexOf[f]) =>
                      result.record[f] = base.record[f]
            /\ Len(fs) >= 15 =>
                  LET other == ParseSplit(SwapEntityFields(fs), line_num)
                  IN  /\ other.tag = "Ok"
                      /\ other.record.v1_organizations = result.record.v1_persons
                      /\ other.record.v1_persons = result.record.v1_organizations
                      /\ other.record.v2_enhanced_organizations =
                             result.record.v2_enhanced_persons
                      /\ other.record.v2_enhanced_persons =
                             result.record.v2_enhanced_organizations

\* a full line whose field 11 alone differs from "x" gave two persons and
\* left the organizations at the one name "x"
C14_Witness ==
    /\ result.tag = "Ok"
    /\ NumFields = 27
    /\ RawField(11) = <<"x", ";", "x">>
    /\ result.record.v1_persons = << <<"x">>, <<"x">> >>
    /\ result.record.v1_organizations = << <<"x">> >>

\* C15: every sub-parser maps the empty string to its empty result: each
\* list-valued parser returns the empty list, parse_tone and
\* parse_translation_info return None; so a field that is present and empty
\* gives the empty value of its output field in the record.
C15_EmptyFieldEmptyResult ==
    /\ \A r \in {parse_counts_v1(<<>>), parse_counts_v21(<<>>),
                 parse_themes_v1(<<>>), parse_enhanced_themes(<<>>),
                 parse_locations_v1(<<>>), parse_enhanced_locations(<<>>),
                 parse_persons_v1(<<>>), parse_enhanced_entities(<<>>),
                 parse_enhanced_dates(<<>>), parse_gcam(<<>>),
                 parse_quotations(<<>>), parse_names(<<>>),
                 parse_amounts(<<>>)} :
           ~r.panic /\ r.val = <<>>
    /\ ~parse_tone(<<>>).some
    /\ ~parse_translation_info(<<>>).some
    /\ (Called /\ result.tag = "Ok") =>
          LET fs == Split(line, HT)
          IN  \A f \in DOMAIN FieldIndexOf :
                  (FieldIndexOf[f] >= 5 /\ FieldAt(fs, FieldIndexOf[f]) = <<>>) =>
                      result.record[f] = EmptyValueOf(f)

\* a full line whose tone field is present and empty gave a record without
\* a tone
C15_Witness ==
    /\ result.tag = "Ok"
    /\ NumFields = 27
    /\ RawField(15) = <<>>
    /\ RawField(16) = <<"x">>
    /\ ~result.record.tone.some

\* the list `out` is, block after block of the text, what the parser P gives
\* for the block alone, and a block gives at most one element
ElementsOfBlocks(text, outer, P(_), out) ==
    LET blocks == SelectSeq(Split(text, outer), LAMBDA p : p # <<>>)
        each == [i \in 1..Len(blocks) |-> P(blocks[i]).val]
    IN  /\ \A i \in 1..Len(blocks) : Len(each[i]) <= 1
        /\ out = Flatten(each)

\* C16: in every list-valued sub-parser each emitted element comes from
\* exactly one block of the field, the elements stand in the order of their
\* blocks, and blocks that are repeated give elements that are repeated:
\* the list is the concatenation, in block order, of what each block gives
\* on its own.
C16_ElementsFollowBlocks ==
    (Called /\ result.tag = "Ok") =>
        LET r == result.record
            fs == Split(line, HT)
        IN  /\ ElementsOfBlocks(FieldAt(fs, 5), ";", parse_counts_v1, r.v1_counts)
            /\ ElementsOfBlocks(FieldAt(fs, 6), ";", parse_counts_v21, r.v21_counts)
            /\ ElementsOfBlocks(FieldAt(fs, 7), ";", parse_themes_v1, r.v1_themes)
            /\ ElementsOfBlocks(FieldAt(fs, 8), ";", parse_enhanced_themes,
                                r.v2_enhanced_themes)
            /\ ElementsOfBlocks(FieldAt(fs, 9), ";", parse_locations_v1, r.v1_locations)
            /\ ElementsOfBlocks(FieldAt(fs, 10), ";", parse_enhanced_locations,
                                r.v2_enhanced_locations)
            /\ ElementsOfBlocks(FieldAt(fs, 11), ";", parse_persons_v1, r.v1_persons)
            /\ ElementsOfBlocks(FieldAt(fs, 12), ";", parse_enhanced_entities,
                                r.v2_enhanced_persons)
            /\ ElementsOfBlocks(FieldAt(fs, 13), ";", parse_persons_v1,
                                r.v1_organizations)
            /\ ElementsOfBlocks(FieldAt(fs, 14), ";", parse_enhanced_entities,
                                r.v2_enhanced_organizations)
            /\ ElementsOfBlocks(FieldAt(fs, 16), ";", parse_enhanced_dates,
                                r.v21_enhanced_dates)
            /\ ElementsOfBlocks(FieldAt(fs, 17), ",", parse_gcam, r.gcam)
            /\ ElementsOfBlocks(FieldAt(fs, 22), "#", parse_quotations, r.quotations)
            /\ ElementsOfBlocks(FieldAt(fs, 23), ";", parse_names, r.all_names)
            /\ ElementsOfBlocks(FieldAt(fs, 24), ";", parse_amounts, r.amounts)

\* two identical enhanced theme blocks gave two identical elements
C16_Witness ==
    /\ result.tag = "Ok"
    /\ RawField(8) = <<"x", ";", "x">>
    /\ Len(result.record.v2_enhanced_themes) = 2
    /\ result.record.v2_enhanced_themes[1] = result.record.v2_enhanced_themes[2]

RECURSIVE JoinWith(_, _)
JoinWith(blocks, d) ==
    IF blocks = <<>> THEN <<>>
    ELSE IF Len(blocks) = 1 THEN blocks[1]
    ELSE blocks[1] \o <<d>> \o JoinWith(Tail(blocks), d)

\* of the blocks of the text, those of fewer than `min` parts gave nothing,
\* the others gave one element each, the element the block gives when the
\* blocks of fewer parts are taken out of the field
ShortBlocksDropped(text, outer, sep, min, P(_), out) ==
    LET blocks == SelectSeq(Split(text, outer), LAMBDA p : p # <<>>)
        enough == SelectSeq(blocks, LAMBDA b : Len(Split(b, sep)) >= min)
    IN  /\ \A i \in 1..Len(blocks) :
              Len(Split(blocks[i], sep)) < min => P(blocks[i]).val = <<>>
        /\ Len(out) = Len(enough)
        /\ \A i \in 1..Len(enough) : P(enough[i]).val = <<out[i]>>
        /\ P(JoinWith(enough, outer)).val = out

\* C17: a counts block (basic or enhanced) of fewer than 2 '#'-parts and a
\* quotations block of fewer than 4 '|'-parts give no element; every Count
\* and Quotation emitted comes from a block that has the minimum of parts;
\* and taking the dropped blocks out of the field leaves the elements of the
\* other blocks as they are.
C17_ShortBlocksDropped ==
    (Called /\ result.tag = "Ok") =>
        LET r == result.record
            fs == Split(line, HT)
        IN  /\ ShortBlocksDropped(FieldAt(fs, 5), ";", "#", 2, parse_counts_v1,
                                  r.v1_counts)
            /\ ShortBlocksDropped(FieldAt(fs, 6), ";", "#", 2, parse_counts_v21,
                                  r.v21_counts)
            /\ ShortBlocksDropped(FieldAt(fs, 22), "#", "|", 4, parse_quotations,
                                  r.quotations)

\* of two count blocks the one of a single part was dropped and the one of
\* two parts gave the only element
C17_Witness ==
    /\ result.tag = "Ok"
    /\ RawField(5) = <<"x", ";", "#">>
    /\ Len(result.record.v1_counts) = 1
    /\ result.record.v1_counts[1].count_type = <<>>

\* the sub-fields of each grammar in positional order, with their kinds
LocationV1Schema ==
    << <<"location_type", "i32">>, <<"full_name", "str">>, <<"country_code", "str">>,
       <<"adm1_code", "str">>, <<"latitude", "f64">>, <<"longitude", "f64">>,
       <<"feature_id", "str">> >>
EnhancedLocationSchema ==
    << <<"location_type", "i32">>, <<"full_name", "str">>, <<"country_code", "str">>,
       <<"adm1_code", "str">>, <<"adm2_code", "str">>, <<"latitude", "f64">>,
       <<"longitude", "f64">>, <<"feature_id", "str">>, <<"char_offset", "i64">> >>
CountV1Schema ==
    << <<"count_type", "str">>, <<"count", "i64">>, <<"object_type", "str">> >>
    \o LocationV1Schema
CountV21Schema == CountV1Schema \o << <<"char_offset", "i64">> >>
EnhancedDateSchema ==
    << <<"resolution", "i32">>, <<"month", "i32">>, <<"day", "i32">>,
       <<"year", "i32">>, <<"char_offset", "i64">> >>
AmountSchema == << <<"amount", "f64">>, <<"object", "str">>, <<"char_offset", "i64">> >>
ToneSchema ==
    << <<"tone", "f64">>, <<"positive_score", "f64">>, <<"negative_score", "f64">>,
       <<"polarity", "f64">>, <<"activity_ref_density", "f64">>,
       <<"self_group_ref_density", "f64">>, <<"word_count", "i64">> >>
EnhancedThemeSchema == << <<"theme", "str">>, <<"char_offset", "i64">> >>
GcamSchema == << <<"dimension", "str">>, <<"value", "f64">> >>

ZeroOf(kind) ==
    CASE kind = "str" -> <<>>
      [] kind = "i32" -> 0
      [] kind = "i64" -> I64Zero
      [] kind = "f64" -> F64Zero

\* a Count with the sub-fields of its location beside its own
FlatCount(e) == [k \in DOMAIN e \ {"location"} |-> e[k]] @@ e.location
SameElement(e) == e

\* the element e of a block of `n` parts has the zero of its kind in every
\* sub-field past the n-th
MissingAreZero(n, e, schema) ==
    \A k \in 1..Len(schema) : k > n => e[schema[k][1]] = ZeroOf(schema[k][2])

\* every block of at least `min` parts gave exactly one element, whose
\* sub-fields past the parts of the block are zero
ShortBlocksPadded(text, outer, sep, min, schema, Flat(_), out) ==
    LET blocks == SelectSeq(Split(text, outer), LAMBDA p : p # <<>>)
        enough == SelectSeq(blocks, LAMBDA b : Len(Split(b, sep)) >= min)
    IN  /\ Len(out) = Len(enough)
        /\ \A i \in 1..Len(enough) :
              MissingAreZero(Len(Split(enough[i], sep)), Flat(out[i]), schema)

\* C18: in the locations (basic and enhanced), counts (from 2 parts up),
\* enhanced dates, amounts and tone parsers a non-empty block of fewer parts
\* than the grammar lists is emitted as exactly one element, each missing
\* string sub-field empty and each missing numeric sub-field zero; an
\* enhanced theme without an offset has offset 0 and a GCAM entry without a
\* value has 0.0.
C18_ShortBlocksPadded ==
    (Called /\ result.tag = "Ok") =>
        LET r == result.record
            fs == Split(line, HT)
        IN  /\ ShortBlocksPadded(FieldAt(fs, 5), ";", "#", 2, CountV1Schema, FlatCount,
                                 r.v1_counts)
            /\ ShortBlocksPadded(FieldAt(fs, 6), ";", "#", 2, CountV21Schema, FlatCount,
                                 r.v21_counts)
            /\ ShortBlocksPadded(FieldAt(fs, 8), ";", ",", 1, EnhancedThemeSchema,
                                 SameElement, r.v2_enhanced_themes)
            /\ ShortBlocksPadded(FieldAt(fs, 9), ";", "#", 1, LocationV1Schema,
                                 SameElement, r.v1_locations)
            /\ ShortBlocksPadded(FieldAt(fs, 10), ";", "#", 1, EnhancedLocationSchema,
                                 SameElement, r.v2_enhanced_locations)
            /\ FieldAt(fs, 15) # <<>> =>
                  /\ r.tone.some
                  /\ MissingAreZero(Len(Split(FieldAt(fs, 15), ",")), r.tone.val,
                                    ToneSchema)
            /\ ShortBlocksPadded(FieldAt(fs, 16), ";", ",", 1, EnhancedDateSchema,
                                 SameElement, r.v21_enhanced_dates)
            /\ ShortBlocksPadded(FieldAt(fs, 17), ",", ":", 1, GcamSchema, SameElement,
                                 r.gcam)
            /\ ShortBlocksPadded(FieldAt(fs, 24), ";", ",", 1, AmountSchema, SameElement,
                                 r.amounts)

\* a location block of two parts gave one location with its type and name,
\* an empty country code and latitude 0.0
C18_Witness ==
    /\ result.tag = "Ok"
    /\ RawField(9) = <<"1", "#", "x">>
    /\ Len(result.record.v1_locations) = 1
    /\ result.record.v1_locations[1].location_type = 1
    /\ result.record.v1_locations[1].full_name = <<"x">>
    /\ result.record.v1_locations[1].country_code = <<>>
    /\ result.record.v1_locations[1].latitude = F64Zero

\* every block of the text that has no comma gave the element of that name
\* with offset 0
CommalessEmitted(text, out) ==
    LET blocks == SelectSeq(Split(text, ";"), LAMBDA p : p # <<>>)
    IN  \A i \in 1..Len(blocks) :
            LastComma(blocks[i]) = 0 =>
                \E k \in 1..Len(out) :
                    out[k] = [name |-> blocks[i], char_offset |-> I64Zero]

\* C19: in the enhanced persons / organizations parser and in the names
\* parser a block without a char offset (a name with no comma after it)
\* falls back to offset 0 and is emitted as one element, the block is not
\* dropped.
C19_Original ==
    (Called /\ result.tag = "Ok") =>
        LET r == result.record
            fs == Split(line, HT)
        IN  /\ CommalessEmitted(FieldAt(fs, 12), r.v2_enhanced_persons)
            /\ CommalessEmitted(FieldAt(fs, 14), r.v2_enhanced_organizations)
            /\ CommalessEmitted(FieldAt(fs, 23), r.all_names)

\* of the two person blocks "x" and "x," only the second, which has a comma,
\* gave an element
C19_Witness ==
    /\ result.tag = "Ok"
    /\ RawField(12) = <<"x", ";", "x", ",">>
    /\ result.record.v2_enhanced_persons = <<[name |-> <<"x">>, char_offset |-> I64Zero]>>

\* every block with a comma and a name before its last comma gave one
\* element: the name is the text before the last comma, the offset the
\* integer read from the text after it
SplitAtLastComma(text, out) ==
    LET blocks == SelectSeq(Split(text, ";"), LAMBDA p : p # <<>>)
        named == SelectSeq(blocks, LAMBDA b : LastComma(b) > 1)
    IN  /\ Len(out) = Len(named)
        /\ \A i \in 1..Len(named) :
              /\ out[i].name = SubSeq(named[i], 1, LastComma(named[i]) - 1)
              /\ out[i].char_offset =
                     parse_i64(SubSeq(named[i], LastComma(named[i]) + 1, Len(named[i])))

\* C20: parse_enhanced_entities and parse_names split each block at its last
\* comma: the name is everything before that comma, embedded commas kept,
\* and the char offset is the integer after it.
C20_SplitAtLastComma ==
    (Called /\ result.tag = "Ok") =>
        LET r == result.record
            fs == Split(line, HT)
        IN  /\ SplitAtLastComma(FieldAt(fs, 12), r.v2_enhanced_persons)
            /\ SplitAtLastComma(FieldAt(fs, 14), r.v2_enhanced_organizations)
            /\ SplitAtLastComma(FieldAt(fs, 23), r.all_names)

\* the names block "x,x,1" gave the name "x,x" with offset 1
C20_Witness ==
    /\ result.tag = "Ok"
    /\ RawField(23) = <<"x", ",", "x", ",", "1">>
    /\ result.record.all_names =
           <<[name |-> <<"x", ",", "x">>, char_offset |-> [neg |-> FALSE, mag |-> <<"1">>]]>>

StartsWith(t, p) == Len(t) >= Len(p) /\ SubSeq(t, 1, Len(p)) = p

\* C21: parse_translation_info returns None exactly when no ';'-separated
\* token of the field starts with "srclc:" or "eng:"; when such a token is
\* present it returns an entity holding the values found, the field whose
\* prefix does not occur being left empty.
C21_Original ==
    (Called /\ result.tag = "Ok") =>
        LET tokens == Split(FieldAt(Split(line, HT), 25), ";")
            hasLang == \E i \in 1..Len(tokens) : StartsWith(tokens[i], SrclcPrefix)
            hasEng == \E i \in 1..Len(tokens) : StartsWith(tokens[i], EngPrefix)
            info == result.record.translation_info
        IN  /\ info.some <=> (hasLang \/ hasEng)
            /\ (info.some /\ ~hasLang) => info.val.source_language = <<>>
            /\ (info.some /\ ~hasEng) => info.val.engine = <<>>

\* the translation field "srclc:", a token with the prefix and no value
\* after it, gave no translation info
C21_Witness ==
    /\ result.tag = "Ok"
    /\ RawField(25) = SrclcPrefix
    /\ ~result.record.translation_info.some

\* the parts of the sequence of <<position, part>> pairs
PartsOf(pairs) == [i \in 1..Len(pairs) |-> pairs[i][2]]

\* the attributes an enhanced location shares with a basic location
BasicOf(e) == [k \in DOMAIN e \ {"adm2_code", "char_offset"} |-> e[k]]

\* C22: parse_enhanced_locations reads the '#'-parts of a block as type,
\* full name, country, adm1, adm2, latitude, longitude, feature id, char
\* offset: parts 0-3 as parse_locations_v1 does, part 4 as adm2, and
\* latitude, longitude and feature id one position later than the basic
\* grammar; so the enhanced location of a block, without adm2 and offset, is
\* the basic location of the block without its part 4.
C22_EnhancedLocationPositions ==
    (Called /\ result.tag = "Ok") =>
        LET out == result.record.v2_enhanced_locations
            blocks == SelectSeq(Split(FieldAt(Split(line, HT), 10), ";"),
                                LAMBDA p : p # <<>>)
        IN  /\ Len(out) = Len(blocks)
            /\ \A i \in 1..Len(blocks) :
                  LET parts == Split(blocks[i], "#")
                      rest == PartsOf(SelectSeq([k \in 1..Len(parts) |-> <<k, parts[k]>>],
                                                LAMBDA p : p[1] # 5))
                  IN  /\ out[i].adm2_code = hash_field(parts, 4)
                      /\ out[i].char_offset = parse_i64(hash_field(parts, 8))
                      /\ BasicOf(out[i]) =
                             [location_type |-> parse_i32(hash_field(rest, 0)),
                              full_name |-> hash_field(rest, 1),
                              country_code |-> hash_field(rest, 2),
                              adm1_code |-> hash_field(rest, 3),
                              latitude |-> parse_f64(hash_field(rest, 4)),
                              longitude |-> parse_f64(hash_field(rest, 5)),
                              feature_id |-> hash_field(rest, 6)]
                      /\ <<BasicOf(out[i])>> =
                             parse_locations_v1(JoinWith(rest, "#")).val

\* the enhanced block "#####1" gave latitude 1.0 and no adm2 code; the basic
\* grammar reads that position as the longitude
C22_Witness ==
    /\ result.tag = "Ok"
    /\ RawField(10) = <<"#", "#", "#", "#", "#", "1">>
    /\ Len(result.record.v2_enhanced_locations) = 1
    /\ result.record.v2_enhanced_locations[1].latitude = parse_f64(<<"1">>)
    /\ result.record.v2_enhanced_locations[1].latitude # F64Zero
    /\ result.record.v2_enhanced_locations[1].longitude = F64Zero
    /\ result.record.v2_enhanced_locations[1].adm2_code = <<>>
    /\ parse_locations_v1(RawField(10)).val[1].longitude = parse_f64(<<"1">>)

(***************************************************************************)
(* Claims about GkgReader (checked under ReaderSpec)                       *)
(***************************************************************************)
\* the 1-based number of the physical line that holds the byte after offset o
LineOfOffset(data, o) == 1 + Cardinality({i \in 1..o : data[i] = LF})

\* the physical lines of the input, without their line feeds
PhysicalLines(data) ==
    LET pieces == Split(data, LF)
    IN  IF pieces[Len(pieces)] = <<>> THEN SubSeq(pieces, 1, Len(pieces) - 1) ELSE pieces

OnlyCarriageReturns(l) == \A i \in 1..Len(l) : l[i] = CR

OkCalls == {i \in 1..Len(yielded) : yielded[i].tag = "Ok"}
ErrCalls == {i \in 1..Len(yielded) : yielded[i].tag = "Err"}
InvalidDataBefore(i) ==
    Cardinality({j \in ErrCalls : j < i /\ yielded[j].error = "InvalidData"})

\* the yielded line numbers, in call order
OkNums == [k \in 1..Cardinality(OkCalls) |->
              yielded[CHOOSE i \in OkCalls : Cardinality({j \in OkCalls : j <= i}) = k].num]

\* the numbers of the physical lines that are not blank, ascending
NonBlankLineNumbers(data) ==
    LET ls == PhysicalLines(data)
        idx == {n \in 1..Len(ls) : ~OnlyCarriageReturns(ls[n])}
    IN  [k \in 1..Cardinality(idx) |->
            CHOOSE n \in idx : Cardinality({m \in idx : m <= n}) = k]

ItemsInOrder ==
    /\ \A i, j \in OkCalls : i < j =>
          /\ yielded[i].num < yielded[j].num
          /\ yielded[i].upto <= yielded[j].from
    /\ \A i \in OkCalls : yielded[i].text # <<>>
    /\ (ret.tag = "None" /\ ErrCalls = {}) => OkNums = NonBlankLineNumbers(inner.data)

\* C5: items come in input order, each item's line number is the
\* 1-based position of its physical line (blank lines counted), the numbers
\* are strictly increasing, a blank line yields no item, no text is empty.
C5_Original ==
    /\ ItemsInOrder
    /\ \A i \in OkCalls : yielded[i].num = LineOfOffset(inner.data, yielded[i].from)

\* The numbering the reader gives: a line whose read failed because it is
\* not valid UTF-8 is consumed without being counted, so each item's number
\* is the position of its physical line less the earlier such failures.
C5_LineNumbers ==
    /\ ItemsInOrder
    /\ \A i \in OkCalls :
          yielded[i].num = LineOfOffset(inner.data, yielded[i].from) - InvalidDataBefore(i)

\* a second item was yielded after a skipped blank line, which was counted
C5_Witness ==
    \E i, j \in OkCalls :
        /\ i < j
        /\ yielded[j].num > yielded[i].num + 1
        /\ InvalidDataBefore(j) = 0

\* the bytes the read behind call i took from the stream
BytesRead(i) == SubSeq(inner.data, yielded[i].from + 1, yielded[i].upto)

StartsPhysicalLine(i) ==
    yielded[i].from = 0 \/ inner.data[yielded[i].from] = LF

\* a line without its terminating line feed and without one carriage return
\* directly before that line feed
StripOneCrLf(l) ==
    IF l # <<>> /\ l[Len(l)] = LF
    THEN IF Len(l) >= 2 /\ l[Len(l) - 1] = CR
         THEN SubSeq(l, 1, Len(l) - 2)
         ELSE SubSeq(l, 1, Len(l) - 1)
    ELSE l

\* C6 as stated: the text yielded for a physical line is the line with
\* exactly its line feed and one optional carriage return before it removed.
C6_Original ==
    \A i \in OkCalls : StartsPhysicalLine(i) => yielded[i].text = StripOneCrLf(BytesRead(i))

\* C6 as amended: the text is what the read took (the whole physical line
\* when the read began at its start) without its line feed, if it has one,
\* and without every carriage return that then ends it; nothing else is
\* removed or changed.
C6_Text ==
    \A i \in OkCalls :
        LET l == BytesRead(i)
            body == IF l[Len(l)] = LF THEN SubSeq(l, 1, Len(l) - 1) ELSE l
            t == yielded[i].text
        IN  /\ Len(t) <= Len(body)
            /\ t = SubSeq(body, 1, Len(t))
            /\ OnlyCarriageReturns(SubSeq(body, Len(t) + 1, Len(body)))
            /\ t[Len(t)] # CR

\* a whole line that ends with two carriage returns and a line feed was yielded
C6_Witness ==
    \E i \in OkCalls :
        /\ StartsPhysicalLine(i)
        /\ Len(BytesRead(i)) >= 4
        /\ BytesRead(i)[Len(BytesRead(i))] = LF
        /\ BytesRead(i)[Len(BytesRead(i)) - 1] = CR
        /\ BytesRead(i)[Len(BytesRead(i)) - 2] = CR

NoPendingFault == \A p \in inner.faults \ inner.fired : p < inner.pos

OnlyBlankLinesLeft ==
    \A i \in (inner.pos + 1)..Len(inner.data) : inner.data[i] \in {CR, LF}

\* C7: the sequence ends after the last non-blank line (None is returned
\* as soon as only blank lines are left, with or without a final line
\* feed, and only when the input is used up), and once next() has returned
\* None every later call returns None and leaves the line counter alone.
C7_OneShot ==
    /\ [](ret.tag = "None" => inner.pos = Len(inner.data))
    /\ [][(OnlyBlankLinesLeft /\ NoPendingFault) => ret'.tag = "None"]_vars
    /\ [][ret.tag = "None" => (ret'.tag = "None" /\ line_number' = line_number)]_vars

\* next() was called again after it had returned None, on an input that
\* held an item and ended with a blank line
C7_Witness ==
    /\ Len(yielded) >= 3
    /\ yielded[Len(yielded)].tag = "None"
    /\ yielded[Len(yielded) - 1].tag = "None"
    /\ OkCalls # {}
    /\ Len(inner.data) >= 2
    /\ inner.data[Len(inner.data)] = LF
    /\ inner.data[Len(inner.data) - 1] = LF

=============================================================================
